----------------------------- MODULE SealThenOpen -----------------------------
(***************************************************************************)
(* What order-vault and the validators promise together: the list of       *)
(* ciphertexts of a batch is fixed once and for all when it is sealed, and *)
(* no ciphertext can be opened that is not part of a sealed list.          *)
(***************************************************************************)
CONSTANTS BatchIds, Ciphertexts, Lists, NoRecord

VARIABLES
    sealed,     \* [BatchIds -> Lists \cup {NoRecord}]
    opened      \* ciphertexts that the coordinator is able to decrypt

Contents == { c \in Ciphertexts :
                \E b \in BatchIds : sealed[b] # NoRecord /\ \E i \in DOMAIN sealed[b] : sealed[b][i] = c }

Init ==
    /\ sealed = [b \in BatchIds |-> NoRecord]
    /\ opened = {}

Seal(b, s) ==
    /\ sealed[b] = NoRecord
    /\ sealed' = [sealed EXCEPT ![b] = s]
    /\ UNCHANGED opened

Open(S) ==
    /\ S \subseteq Contents
    /\ opened' = opened \cup S
    /\ UNCHANGED sealed

Next ==
    \/ \E b \in BatchIds, s \in Lists : Seal(b, s)
    \/ \E S \in SUBSET Ciphertexts : Open(S)

Spec == Init /\ [][Next]_<<sealed, opened>>
=============================================================================
