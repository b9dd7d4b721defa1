------------------------------- MODULE Wallet -------------------------------
(***************************************************************************)
(* pkg/wallet: the keys of a wallet (wallet.go) and the nonces its         *)
(* transaction builders use (txbuilder.go).                                *)
(*                                                                         *)
(* A key is stored in the clear or encrypted under the hash of a password; *)
(* the hash stands for the password.  An address is what CreateAccount     *)
(* derives from an index and a passphrase, so the same two give the same   *)
(* address.  accountsIndex holds the last account made for an address.     *)
(***************************************************************************)
EXTENDS Integers, FiniteSets, SequencesExt

CONSTANTS
    Passwords,       \* the passwords a caller gives, NoPassword is ""
    NoPassword,
    NilHash,         \* passwordHash of a wallet made without a password
    Plain,           \* a key stored in the clear
    Builders,        \* goroutines that build transactions
    ExplicitNonces,  \* nonces a caller may set; 0 is the wallet's own
    MaxAccounts, MaxNonce, MaxEncryptFaults

ASSUME WalletAssumption ==
    /\ NoPassword \in Passwords /\ NilHash \notin Passwords /\ Plain \notin Passwords \cup {NilHash}
    /\ ExplicitNonces \subseteq Nat /\ 0 \in ExplicitNonces
    /\ MaxAccounts \in Nat /\ MaxNonce \in Nat /\ MaxEncryptFaults \in Nat

VARIABLES
    accounts,       \* w.accounts: sequence of [addr, key, nonce]
    encrypted, locked, passwordHash,
    build,          \* the step of each builder: [pc, addr, nonce]
    encryptFaults,  \* failures of crypto.Encrypt so far
    stranded,       \* history: accounts under the password of a change that failed
    signed,         \* history: the pairs of address and nonce signed
    reused,         \* history: the addresses of a pair signed twice
    excused         \* history: addresses whose nonce a caller reset or shared

walletVars ==
    <<accounts, encrypted, locked, passwordHash, build, encryptFaults, stranded, signed,
      reused, excused>>

keyVars == <<accounts, encrypted, locked, passwordHash, encryptFaults, stranded>>
buildVars == <<build, signed, reused, excused>>

Idle == [pc |-> "idle", addr |-> NoPassword, nonce |-> 0]

\* The position of the account accountsIndex names.
IndexOf(addr) == Max({i \in DOMAIN accounts : accounts[i].addr = addr})
Addresses == {accounts[i].addr : i \in DOMAIN accounts}

\* Mutant: a new key is stored in the clear while the wallet is locked.
storedKeyInClear(hash, enc) == Plain

\* What CreateAccount stores of a new key.
storedKey(hash, enc) == IF enc /\ hash # NilHash THEN hash ELSE Plain

\* NewWallet: with a password the wallet is encrypted and locked; the default
\* account is derived with the same password.
WalletInit ==
    /\ \E password \in Passwords :
        /\ passwordHash = IF password = NoPassword THEN NilHash ELSE password
        /\ encrypted = (password # NoPassword)
        /\ locked = (password # NoPassword)
        /\ accounts = <<[addr |-> password, key |-> storedKey(passwordHash, encrypted), nonce |-> 0]>>
    /\ build = [b \in Builders |-> Idle]
    /\ encryptFaults = 0
    /\ stranded = {}
    /\ signed = {} /\ reused = {}
    /\ excused = {}

\* Neither the lock nor the password of the wallet is asked for.
CreateAccount(password) ==
    /\ Len(accounts) < MaxAccounts
    /\ accounts' = Append(accounts,
            [addr |-> password, key |-> storedKey(passwordHash, encrypted), nonce |-> 0])
    /\ excused' = IF password \in Addresses THEN excused \cup {password} ELSE excused
    /\ UNCHANGED <<encrypted, locked, passwordHash, build, encryptFaults, stranded, signed, reused>>

\* The first n keys encrypted under hash, in the order of the list.
Encrypted(n, hash) ==
    [i \in DOMAIN accounts |-> IF i <= n THEN [accounts[i] EXCEPT !.key = hash] ELSE accounts[i]]

\* Encrypt fails at the account behind the first n.
EncryptFailsAt(n) ==
    /\ encryptFaults < MaxEncryptFaults
    /\ n < Len(accounts)
    /\ encryptFaults' = encryptFaults + 1

\* Lock encrypts the keys that are in the clear; one that fails leaves those
\* before it encrypted and the wallet unlocked.
Lock ==
    /\ ~ locked /\ encrypted /\ passwordHash # NilHash
    /\ \E n \in 0 .. Len(accounts) :
        /\ accounts' = [i \in DOMAIN accounts |->
                IF i <= n /\ accounts[i].key = Plain THEN [accounts[i] EXCEPT !.key = passwordHash]
                ELSE accounts[i]]
        /\ \/ n = Len(accounts) /\ locked' = TRUE /\ UNCHANGED encryptFaults
           \/ EncryptFailsAt(n) /\ accounts[n + 1].key = Plain /\ UNCHANGED locked
    /\ UNCHANGED <<encrypted, passwordHash, stranded, buildVars>>

\* The accounts before the first whose key the wallet's hash does not decrypt.
Decryptable ==
    Max({n \in 0 .. Len(accounts) :
            \A i \in 1 .. n : accounts[i].key \in {Plain, passwordHash}})

\* Unlock stops at a key it cannot decrypt, with those before it in the clear.
Unlock(password) ==
    /\ locked
    /\ password = passwordHash
    /\ accounts' = Encrypted(Decryptable, Plain)
    /\ locked' = (Decryptable < Len(accounts))
    /\ UNCHANGED <<encrypted, passwordHash, encryptFaults, stranded, buildVars>>

\* Mutant: the keys are encrypted again and the hash is kept.
ChangePasswordKeepingHash(old, new) ==
    /\ locked => old = passwordHash
    /\ accounts' = Encrypted(Len(accounts), new)
    /\ UNCHANGED <<encrypted, locked, passwordHash, encryptFaults, stranded, buildVars>>

\* ChangePassword encrypts every key anew, one after the other, and then takes
\* the new hash.  The old password is asked for when the wallet is locked.
ChangePassword(old, new) ==
    /\ locked => old = passwordHash
    /\ \E n \in 0 .. Decryptable :
        /\ accounts' = Encrypted(n, new)
        /\ \/ n = Len(accounts) /\ passwordHash' = new /\ UNCHANGED <<encryptFaults, stranded>>
           \/ /\ n = Decryptable /\ n < Len(accounts)
              /\ stranded' = stranded \cup 1 .. n
              /\ UNCHANGED <<passwordHash, encryptFaults>>
           \/ EncryptFailsAt(n) /\ stranded' = stranded \cup 1 .. n /\ UNCHANGED passwordHash
    /\ UNCHANGED <<encrypted, locked, buildVars>>

\* Sign and ExportPrivateKey find the key of an account with this password.
Opens(account, password) ==
    \/ account.key = Plain
    \/ password # NoPassword /\ password = passwordHash /\ account.key = passwordHash

CanExport(addr, password) ==
    /\ locked => password # NoPassword /\ password = passwordHash
    /\ Opens(accounts[IndexOf(addr)], password)

-----------------------------------------------------------------------------
\* TxBuilder.buildTransaction: it reads the nonce, signs and stores the next
\* nonce, each under the wallet's lock for itself.

GetNonce(b, addr, explicit) ==
    /\ build[b].pc = "idle"
    /\ addr \in Addresses
    /\ LET nonce == IF explicit = 0 THEN accounts[IndexOf(addr)].nonce ELSE explicit
       IN  /\ nonce <= MaxNonce
           /\ build' = [build EXCEPT ![b] = [pc |-> "sign", addr |-> addr, nonce |-> nonce]]
    /\ excused' = IF explicit # 0 \/ \E other \in Builders : build[other].pc # "idle" /\ build[other].addr = addr
                  THEN excused \cup {addr} ELSE excused
    /\ UNCHANGED <<keyVars, signed, reused>>

Sign(b, password) ==
    /\ build[b].pc = "sign"
    /\ IF Opens(accounts[IndexOf(build[b].addr)], password)
       THEN /\ build' = [build EXCEPT ![b].pc = "update"]
            /\ LET pair == <<build[b].addr, build[b].nonce>>
               IN  /\ signed' = signed \cup {pair}
                   /\ reused' = IF pair \in signed THEN reused \cup {build[b].addr} ELSE reused
       ELSE build' = [build EXCEPT ![b] = Idle] /\ UNCHANGED <<signed, reused>>
    /\ UNCHANGED <<keyVars, excused>>

\* Mutant: the nonce just used is stored.
nextNonceSame(nonce) == nonce

nextNonce(nonce) == nonce + 1

UpdateNonce(b) ==
    /\ build[b].pc = "update"
    /\ accounts' = [accounts EXCEPT ![IndexOf(build[b].addr)].nonce = nextNonce(build[b].nonce)]
    /\ build' = [build EXCEPT ![b] = Idle]
    /\ UNCHANGED <<encrypted, locked, passwordHash, encryptFaults, stranded, signed, reused, excused>>

WalletNext ==
    \/ \E password \in Passwords : CreateAccount(password) \/ Unlock(password)
    \/ Lock
    \/ \E old, new \in Passwords : ChangePassword(old, new)
    \/ \E b \in Builders, addr \in Passwords, n \in ExplicitNonces : GetNonce(b, addr, n)
    \/ \E b \in Builders : UpdateNonce(b) \/ \E password \in Passwords : Sign(b, password)

WalletSpec == WalletInit /\ [][WalletNext]_walletVars

-----------------------------------------------------------------------------

WalletTypeOK ==
    /\ accounts \in Seq([addr : Passwords, key : Passwords \cup {Plain}, nonce : 0 .. MaxNonce + 1])
    /\ encrypted \in BOOLEAN /\ locked \in BOOLEAN
    /\ passwordHash \in Passwords \cup {NilHash}
    /\ \A b \in Builders : build[b].pc \in {"idle", "sign", "update"}

\* The wallet's password opens every key, through every order of creating
\* accounts, locking, unlocking and changing the password (wallet.go:115-375),
\* except the keys that a ChangePassword which failed half way had encrypted
\* under the new password, which the wallet then forgets; and except with the
\* empty password, which Sign and ExportPrivateKey take for none.
OwnerCanSign ==
    \A i \in DOMAIN accounts \ stranded :
        /\ accounts[i].key \in {Plain, passwordHash}
        /\ passwordHash # NoPassword => Opens(accounts[i], passwordHash)

\* A locked wallet keeps no key in the clear (wallet.go:102, 178, 273, 340), and
\* exports none without its password, unless a failed change left a key that
\* Unlock stops at, behind keys it has decrypted already.
LockedIsSealed ==
    locked /\ stranded = {} =>
        /\ \A i \in DOMAIN accounts : accounts[i].key # Plain
        /\ \A addr \in Addresses : CanExport(addr, NoPassword) = FALSE

\* The owner keeps access to the keys, and nobody else has it while the wallet
\* is locked.
KeysKept == OwnerCanSign /\ LockedIsSealed

\* No nonce of an address is signed twice (txbuilder.go:128-167), as long as
\* the caller sets none, builds one transaction of an address at a time and
\* does not create the account again: the nonce is read, used and stored under
\* three separate locks, and a second CreateAccount starts it at 0.
NonceOnce == reused \subseteq excused

=============================================================================
