------------------------------ MODULE Migration ------------------------------
(***************************************************************************)
(* pkg/tx/migration.go: the proofs of assets locked on the old chain.  The *)
(* old chain is not asked (validateOldChainSignature checks the form of    *)
(* the signature), so what a proof says of it is taken as it is.           *)
(*                                                                         *)
(* MigrationValidator has no mutex: the look into usedProofs and the mark  *)
(* are two steps of a caller, and calls may overlap.                       *)
(***************************************************************************)
EXTENDS Integers, FiniteSets

CONSTANTS
    Proofs,         \* records [lock, lockAmount, lockTime, to, amount, timestamp]
    Owners,         \* new addresses
    Claimants,      \* the goroutines that call ValidateMigration
    NoClaim,        \* no call is running
    NoLimit,        \* no entry in limits
    OneV6,          \* 1000000000: the least amount, and the limit by default
    Limits,         \* the limits an operator may set
    proofValidity,  \* how long a proof is valid (30 days)
    LockValidity,   \* how old the lock may be (90 days)
    MigrationMaxTime \* bound on the clock

ASSUME MigrationAssumption ==
    /\ \A p \in Proofs :
          {p.lockAmount, p.lockTime, p.amount, p.timestamp} \subseteq Nat /\ p.to \in Owners
    /\ Limits \subseteq Nat /\ NoLimit \notin Limits
    /\ IsFiniteSet(Claimants) /\ NoClaim \notin Proofs
    /\ {OneV6, proofValidity, LockValidity, MigrationMaxTime} \subseteq Nat

VARIABLES
    usedProofs,     \* the IDs of the proofs used
    limits,         \* MigrationValidator.limits
    migrationNow,   \* the wall clock
    claims,         \* the proof of the call each caller is in, past its checks
    minted          \* history: how often ValidateMigration has granted the money of an ID

migrationVars == <<usedProofs, limits, migrationNow, claims, minted>>

\* generateProofID: the locked amount and its time are not part of it.
ProofID(p) == [lock |-> p.lock, to |-> p.to, amount |-> p.amount, timestamp |-> p.timestamp]

MigrationTypeOK ==
    /\ usedProofs \subseteq {ProofID(p) : p \in Proofs}
    /\ limits \in [Owners -> Limits \cup {NoLimit}]
    /\ migrationNow \in 0 .. MigrationMaxTime
    /\ claims \in [Claimants -> Proofs \cup {NoClaim}]
    /\ minted \in [{ProofID(p) : p \in Proofs} -> Nat]

MigrationInit ==
    /\ usedProofs = {}
    /\ limits = [o \in Owners |-> NoLimit]
    /\ migrationNow = 0
    /\ claims = [c \in Claimants |-> NoClaim]
    /\ minted = [id \in {ProofID(p) : p \in Proofs} |-> 0]

validateProofFormat(p) == p.lockAmount > 0 /\ p.amount > 0 /\ p.amount <= p.lockAmount

validateProofExpiry(p) ==
    /\ migrationNow >= p.timestamp
    /\ migrationNow - p.timestamp <= proofValidity
    /\ migrationNow - p.lockTime <= LockValidity

validateLockAmount(p) == p.amount <= p.lockAmount /\ p.amount >= OneV6

validateMigrationLimit(p) ==
    p.amount <= IF limits[p.to] = NoLimit THEN OneV6 ELSE limits[p.to]

\* Mutant: the proof is not marked.
markProofUsedNever(p) == UNCHANGED usedProofs

markProofUsed(p) == usedProofs' = usedProofs \cup {ProofID(p)}

\* The checks of ValidateMigration, in the goroutine c.
ValidateMigration(c, p) ==
    /\ claims[c] = NoClaim
    /\ validateProofFormat(p)
    /\ ProofID(p) \notin usedProofs
    /\ validateProofExpiry(p)
    /\ validateLockAmount(p)
    /\ validateMigrationLimit(p)
    /\ claims' = [claims EXCEPT ![c] = p]
    /\ UNCHANGED <<usedProofs, limits, migrationNow, minted>>

\* The proof is marked, and the amount returned.
ReturnMigration(c) ==
    /\ claims[c] # NoClaim
    /\ markProofUsed(claims[c])
    /\ minted' = [minted EXCEPT ![ProofID(claims[c])] = @ + 1]
    /\ claims' = [claims EXCEPT ![c] = NoClaim]
    /\ UNCHANGED <<limits, migrationNow>>

SetMigrationLimit(o, limit) ==
    /\ limits' = [limits EXCEPT ![o] = limit]
    /\ UNCHANGED <<usedProofs, migrationNow, claims, minted>>

MigrationTick ==
    /\ migrationNow < MigrationMaxTime
    /\ migrationNow' = migrationNow + 1
    /\ UNCHANGED <<usedProofs, limits, claims, minted>>

MigrationNext ==
    \/ \E c \in Claimants, p \in Proofs : ValidateMigration(c, p)
    \/ \E c \in Claimants : ReturnMigration(c)
    \/ \E o \in Owners, limit \in Limits : SetMigrationLimit(o, limit)
    \/ MigrationTick

MigrationSpec == MigrationInit /\ [][MigrationNext]_migrationVars

-----------------------------------------------------------------------------

\* The calls that are about to grant the money of an ID.
Claiming(id) == {c \in Claimants : claims[c] # NoClaim /\ ProofID(claims[c]) = id}

\* The money of a proof, whose amount is part of its ID, is granted as long as
\* the proof is unused, and never in a call that begins after it was: each
\* caller is granted it once at most, and the same proof once in all by a
\* single caller, whatever else its copies say of the lock.
MintedOnce ==
    \A id \in DOMAIN minted :
        /\ minted[id] = 0 <=> id \notin usedProofs
        /\ minted[id] + Cardinality(Claiming(id)) <= Cardinality(Claimants)

=============================================================================
