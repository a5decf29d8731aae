------------------------------ MODULE Currency ------------------------------
(***************************************************************************)
(* VGOV as the pallet uses it: pallet-balances behind fungible::MutateHold *)
(* (an external crate, modelled from the calls in the pallet).  An account *)
(* has one free balance and ONE held amount per hold reason: the holds of  *)
(* several projects or proposals of an account are added up, and a release *)
(* or a burn with Precision::BestEffort takes what is there.               *)
(***************************************************************************)
EXTENDS Perbill

CONSTANTS
    Account,
    ExistentialDeposit,     \* EXISTENTIAL_DEPOSIT of the runtime
    Endowment               \* free balance of every account at genesis

ASSUME CurrencyAssumption ==
    /\ ExistentialDeposit \in Nat
    /\ Endowment \in Balance

VARIABLES
    free,       \* [Account -> balance not on hold]
    held        \* [HoldReason -> [Account -> balance on hold]]

HoldReason == {"Stake", "ProposalBond"}

CurrencyInit ==
    /\ free = [a \in Account |-> Endowment]
    /\ held = [h \in HoldReason |-> [a \in Account |-> 0]]

\* A hold must leave the existential deposit behind.
CanHold(a, amount) == amount <= SatSub(free[a], ExistentialDeposit)

\* Mutant: the hold replaces what the account already has on hold for the reason.
HoldReplacing(reason, a, amount) ==
    /\ CanHold(a, amount)
    /\ free' = [free EXCEPT ![a] = @ - amount]
    /\ held' = [held EXCEPT ![reason][a] = amount]

Hold(reason, a, amount) ==
    /\ CanHold(a, amount)
    /\ free' = [free EXCEPT ![a] = @ - amount]
    /\ held' = [held EXCEPT ![reason][a] = @ + amount]

\* What a BestEffort release or burn of `amount` really takes off hold.
TakenOffHold(reason, a, amount) == AtMost(amount, held[reason][a])

\* Mutant: all that is on hold for the reason goes, whatever the amount.
ReleaseAll(reason, a, amount) ==
    /\ free' = [free EXCEPT ![a] = @ + amount]
    /\ held' = [held EXCEPT ![reason][a] = 0]

Release(reason, a, amount) ==
    /\ free' = [free EXCEPT ![a] = @ + TakenOffHold(reason, a, amount)]
    /\ held' = [held EXCEPT ![reason][a] = @ - TakenOffHold(reason, a, amount)]
=============================================================================
