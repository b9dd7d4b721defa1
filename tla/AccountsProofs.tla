--------------------------- MODULE AccountsProofs ---------------------------
(* Facts about the operators of Accounts, for the other proof modules.     *)
EXTENDS Accounts, TLAPS

(* What the operators on accounts return.                                  *)

LEMMA NewAccountType == NewAccount \in Account
  BY ModulusAssumption DEF NewAccount, Account, Uint64

LEMMA AddBalanceType ==
  ASSUME NEW acc \in Account, NEW amount \in Uint64
  PROVE  AddBalance(acc, amount) \in Account
<1>1. acc.Balance + amount \in Nat
  BY ModulusAssumption DEF Account, Uint64
<1>2. (acc.Balance + amount) % Modulus \in Uint64
  BY <1>1, ModulusAssumption DEF Uint64
<1> QED BY <1>2 DEF AddBalance, Account

LEMMA SubBalanceType ==
  ASSUME NEW acc \in Account, NEW amount \in Nat
  PROVE  SubBalance(acc, amount) \in Account
  BY ModulusAssumption DEF SubBalance, Account, Uint64

LEMMA GetTypes ==
  ASSUME NEW map \in AccountMap, NEW a \in Addr
  PROVE  GetOrNew(map, a) \in Account /\ GetSender(map, a) \in Account
  BY NewAccountType, InitialBalanceAssumption
  DEF GetOrNew, GetSender, AccountMap, Account, NewAccount, Uint64

LEMMA SetAccountType ==
  ASSUME NEW map \in AccountMap, NEW a \in Addr, NEW acc \in Account
  PROVE  SetAccount(map, a, acc) \in AccountMap
  BY DEF SetAccount, AccountMap

LEMMA TxTypes ==
  ASSUME NEW tx \in Transaction
  PROVE  /\ tx.from \in Addr /\ tx.to \in Addr /\ tx.type \in TxType
         /\ tx.amount \in Uint64 /\ tx.fee \in Uint64
         /\ tx.amount \in Nat /\ tx.amount + tx.fee \in Nat
  BY ModulusAssumption DEF Transaction, Uint64

LEMMA ExecuteTypes ==
  ASSUME NEW tx \in Transaction, NEW from \in Account, NEW to \in Account
  PROVE  /\ ExecuteFrom(tx, from) \in Account
         /\ ExecuteTo(tx, to) \in Account
         /\ MigratedAccount(from) \in Account
<1>1. ExecuteFrom(tx, from) \in Account
  <2>1. [from EXCEPT !.Balance = 0] \in Account
    BY ModulusAssumption DEF Account, Uint64
  <2> QED BY <2>1, TxTypes, SubBalanceType DEF ExecuteFrom, TxType, Transfers
<1>2. ExecuteTo(tx, to) \in Account
  BY TxTypes, AddBalanceType DEF ExecuteTo
<1>3. MigratedAccount(from) \in Account
  BY ModulusAssumption DEF MigratedAccount, NewAccount, Account, Uint64
<1> QED BY <1>1, <1>2, <1>3

\* ExecuteTransaction maps a state database to a state database.
LEMMA ExecuteTransactionType ==
  ASSUME NEW map \in AccountMap, NEW tx \in Transaction
  PROVE  ExecuteTransaction(map, tx) \in AccountMap
<1>1. tx.from \in Addr /\ tx.to \in Addr
  BY TxTypes
<1>2. GetSender(map, tx.from) \in Account /\ GetOrNew(map, tx.to) \in Account
  BY <1>1, GetTypes
<1>3. /\ ExecuteFrom(tx, GetSender(map, tx.from)) \in Account
      /\ ExecuteTo(tx, GetOrNew(map, tx.to)) \in Account
  BY <1>2, ExecuteTypes
<1> QED BY <1>1, <1>3, SetAccountType DEF ExecuteTransaction

=============================================================================
