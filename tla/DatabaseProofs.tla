----------------------------- MODULE DatabaseProofs -----------------------------
(***************************************************************************)
(* Proofs about what the database goes through: the migrations of the      *)
(* processes that start on it, and the rows of the digest's subscribers.   *)
(***************************************************************************)
EXTENDS Migrations, Newsletter, TLAPS

-----------------------------------------------------------------------------
(* The migrations, for any number of processes, state codes and faults.     *)
(* MigrationInv says what an open transaction holds at each step of a       *)
(* process, that two of them never hold the same migration, and what the    *)
(* loop has behind it.                                                      *)

InTransaction == {"record", "commit"}

\* What a transaction holds: the migration at the cursor, recorded before COMMIT.
\* A failed one holds what it had when the query failed.
TransactionInv ==
    \A p \in Process :
        /\ phase[p] \in {"execute", "record", "commit"} => cursor[p] \in File
        /\ phase[p] \in InTransaction => tx[p] = cursor[p]
        /\ phase[p] = "record" => recorded[p] = 0
        /\ phase[p] = "commit" => recorded[p] = tx[p] /\ recorded[p] \notin applied
        /\ phase[p] \notin InTransaction \cup {"rollback"} => tx[p] = 0 /\ recorded[p] = 0

\* Locks and the primary key keep transactions apart.
LockInv ==
    \A p, q \in Process : p # q =>
        /\ tx[p] # 0 => tx[q] # tx[p]
        /\ recorded[p] # 0 => recorded[q] # recorded[p]

\* Rows without a scope are from before the scope migration.
RowInv ==
    /\ \A r \in rows : r.scope \in {NoScope, ScopeOf[r.code]}
    /\ ScopeFile \in schema => \A r \in rows : r.scope = ScopeOf[r.code]

\* What a process has read, and what its loop has passed, is in the schema.
LoopInv ==
    \A p \in Process :
        /\ seen[p] \subseteq schema
        /\ phase[p] \in {"loop", "execute", "record", "commit"} =>
             \A f \in 1..image[p] : f < cursor[p] => f \in schema
        /\ phase[p] = "serving" => 1..image[p] \subseteq schema

MigrationInv == TypeOK /\ TransactionInv /\ LockInv /\ applied = schema /\ RowInv /\ LoopInv

-----------------------------------------------------------------------------

LEMMA InitMigrationInv == MigrationInit => MigrationInv
<1> SUFFICES ASSUME MigrationInit PROVE MigrationInv
  OBVIOUS
<1>1. TypeOK
  BY DEF MigrationInit, TypeOK, File, Phase
<1>2. TransactionInv /\ LockInv
  BY DEF MigrationInit, TransactionInv, InTransaction, LockInv
<1>3. applied = schema /\ RowInv
  BY DEF MigrationInit, RowInv
<1>4. LoopInv
  BY DEF MigrationInit, LoopInv, File
<1> QED
  BY <1>1, <1>2, <1>3, <1>4 DEF MigrationInv

\* Steps that leave the tables, transactions and locks alone.
LEMMA CreateLedgerStep ==
    ASSUME MigrationInv, NEW p \in Process, CreateLedger(p) PROVE MigrationInv'
BY DEF MigrationInv, TypeOK, File, Phase, TransactionInv, InTransaction, LockInv, RowInv, LoopInv, CreateLedger, Goto

LEMMA ReadAppliedStep ==
    ASSUME MigrationInv, NEW p \in Process, ReadApplied(p) PROVE MigrationInv'
<1> USE DEF MigrationInv, ReadApplied, Goto, database
<1>1. TypeOK' /\ TransactionInv' /\ LockInv' /\ applied' = schema' /\ RowInv'
  BY DEF TypeOK, File, Phase, TransactionInv, InTransaction, LockInv, RowInv
<1>2. LoopInv'
  BY DEF TypeOK, File, Phase, LoopInv
<1> QED
  BY <1>1, <1>2

LEMMA BeginStep ==
    ASSUME MigrationInv, NEW p \in Process, Begin(p) PROVE MigrationInv'
<1>1. PICK f \in File : /\ IsNext(p, f)
                        /\ Goto(p, "loop", "execute")
                        /\ cursor' = [cursor EXCEPT ![p] = f]
                        /\ UNCHANGED <<database, image, seen, tx, recorded, faults>>
  BY DEF Begin
<1> USE <1>1 DEF MigrationInv, Goto, database
<1>2. TypeOK' /\ TransactionInv' /\ LockInv' /\ applied' = schema' /\ RowInv'
  BY DEF TypeOK, File, Phase, TransactionInv, InTransaction, LockInv, RowInv
\* The files between the cursor and the next one have been seen.
<1>3. ASSUME NEW g \in 1..image[p], g < f PROVE g \in schema
  <2>1. CASE g < cursor[p]
    BY <2>1, <1>3 DEF LoopInv
  <2>2. CASE g >= cursor[p]
    BY <2>2, <1>3 DEF LoopInv, IsNext, Left, TypeOK, File
  <2> QED
    BY <2>1, <2>2 DEF TypeOK, File
<1>4. LoopInv'
  BY <1>3 DEF LoopInv, TypeOK, File, Phase
<1> QED
  BY <1>2, <1>4

LEMMA ExecuteStep ==
    ASSUME MigrationInv, NEW p \in Process, Execute(p) PROVE MigrationInv'
<1> USE DEF MigrationInv, Execute, Goto, database
<1>1. TypeOK' /\ TransactionInv' /\ applied' = schema' /\ RowInv' /\ LoopInv'
  BY DEF TypeOK, File, Phase, TransactionInv, InTransaction, RowInv, LoopInv
<1>2. LockInv'
  BY DEF LockInv, Locked, TransactionInv, InTransaction, TypeOK, File, Phase
<1> QED
  BY <1>1, <1>2

LEMMA RecordStep ==
    ASSUME MigrationInv, NEW p \in Process, Record(p) PROVE MigrationInv'
<1> USE DEF MigrationInv, Record
<1>1. TypeOK' /\ applied' = schema' /\ RowInv' /\ LoopInv'
  BY DEF TypeOK, File, Phase, TransactionInv, RowInv, LoopInv
<1>2. TransactionInv'
  BY DEF TypeOK, File, Phase, TransactionInv, InTransaction
<1>3. LockInv'
  BY DEF LockInv, TransactionInv, InTransaction, TypeOK, File, Phase
<1> QED
  BY <1>1, <1>2, <1>3

\* COMMIT takes effect, acknowledged or not.
LEMMA CommitStep ==
    ASSUME MigrationInv, NEW p \in Process, Commit(p) \/ CommitUnacknowledged(p) PROVE MigrationInv'
<1>0. /\ phase[p] = "commit" /\ CommitTransaction(p)
      /\ UNCHANGED <<ledger, image, seen>> /\ faults' \in Nat
      /\ \/ phase' = [phase EXCEPT ![p] = "loop"] /\ cursor' = [cursor EXCEPT ![p] = @ + 1]
         \/ phase' = [phase EXCEPT ![p] = "rollback"] /\ cursor' = cursor
  BY DEF Commit, CommitUnacknowledged, Goto, MigrationInv, TypeOK
<1> USE <1>0 DEF MigrationInv, CommitTransaction
<1>1. /\ tx[p] \in File /\ recorded[p] = tx[p] /\ tx[p] = cursor[p]
      /\ schema' = schema \cup {tx[p]} /\ applied' = applied \cup {tx[p]}
  BY DEF TransactionInv, InTransaction
<1>2. rows' \subseteq Row /\ RowInv'
  <2>1. CASE tx[p] = ScopeFile
    <3>1. rows' = {[r EXCEPT !.scope = IF @ = NoScope THEN ScopeOf[r.code] ELSE @] : r \in rows}
      BY <2>1 DEF Backfilled
    <3>2. ASSUME NEW r \in rows
          PROVE  LET s == [r EXCEPT !.scope = IF @ = NoScope THEN ScopeOf[r.code] ELSE @]
                 IN  s \in Row /\ s.code = r.code /\ s.scope = ScopeOf[s.code]
      BY MigrationsAssumption DEF TypeOK, Row, RowInv
    <3> QED
      BY <3>1, <3>2 DEF RowInv
  <2>2. CASE tx[p] # ScopeFile
    BY <1>1, <2>2 DEF Backfilled, RowInv, TypeOK
  <2> QED
    BY <2>1, <2>2
<1>3. TypeOK'
  <2>1. cursor' \in [Process -> Nat] /\ phase' \in [Process -> Phase]
    BY DEF TypeOK, Phase
  <2> QED
    BY <1>1, <1>2, <2>1 DEF TypeOK, File
<1>4. TransactionInv'
  BY <1>1 DEF TypeOK, File, Phase, TransactionInv, InTransaction, LockInv
<1>5. LockInv'
  BY <1>1 DEF TypeOK, File, LockInv
<1>6. LoopInv'
  BY <1>1 DEF TypeOK, File, Phase, LoopInv
<1> QED
  BY <1>1, <1>2, <1>3, <1>4, <1>5, <1>6

LEMMA QueryFailsStep ==
    ASSUME MigrationInv, NEW p \in Process, QueryFails(p) PROVE MigrationInv'
<1> USE DEF MigrationInv, QueryFails, Goto, database
<1>1. TypeOK' /\ applied' = schema' /\ RowInv' /\ LoopInv' /\ LockInv'
  BY DEF TypeOK, File, Phase, RowInv, LoopInv, LockInv
<1>2. TransactionInv'
  BY DEF TypeOK, File, Phase, TransactionInv, InTransaction
<1> QED
  BY <1>1, <1>2

\* A process that ends leaves nothing but what it committed.
LEMMA ForgetStep ==
    ASSUME MigrationInv, NEW p \in Process, Forget(p), phase' = [phase EXCEPT ![p] = "down"],
           faults' \in Nat, UNCHANGED <<database, image>>
    PROVE  MigrationInv'
<1> USE DEF MigrationInv, Forget, database
<1>1. TypeOK' /\ applied' = schema' /\ RowInv' /\ LoopInv' /\ LockInv'
  BY DEF TypeOK, File, Phase, RowInv, LoopInv, LockInv
<1>2. TransactionInv'
  BY DEF TypeOK, File, Phase, TransactionInv, InTransaction
<1> QED
  BY <1>1, <1>2

LEMMA EndStep ==
    ASSUME MigrationInv, NEW p \in Process, Rollback(p) \/ Crash(p) \/ Terminate(p) PROVE MigrationInv'
BY ForgetStep DEF Rollback, Crash, Terminate, Goto, MigrationInv, TypeOK

LEMMA MigratedStep ==
    ASSUME MigrationInv, NEW p \in Process, Migrated(p) PROVE MigrationInv'
<1> USE DEF MigrationInv, Migrated, Goto, database
<1>1. TypeOK' /\ TransactionInv' /\ LockInv' /\ applied' = schema' /\ RowInv'
  BY DEF TypeOK, File, Phase, TransactionInv, InTransaction, LockInv, RowInv
<1>2. ASSUME NEW f \in 1..image[p] PROVE f \in schema
  BY DEF Left, LoopInv, TypeOK, File
<1>3. LoopInv'
  BY <1>2 DEF LoopInv, TypeOK, File, Phase
<1> QED
  BY <1>1, <1>3

LEMMA RestartStep ==
    ASSUME MigrationInv, NEW p \in Process, Restart(p) PROVE MigrationInv'
<1> USE DEF MigrationInv, Restart, Goto, database
<1>1. TypeOK' /\ applied' = schema' /\ RowInv' /\ LoopInv' /\ LockInv'
  BY DEF TypeOK, File, Phase, RowInv, LoopInv, LockInv
<1>2. TransactionInv'
  BY DEF TypeOK, File, Phase, TransactionInv, InTransaction
<1> QED
  BY <1>1, <1>2

\* An image without the scope columns cannot write once they are there.
LEMMA InsertStep ==
    ASSUME MigrationInv, NEW p \in Process, NEW c \in Code, Insert(p, c) PROVE MigrationInv'
<1> USE DEF MigrationInv, Insert, process
<1>1. PICK s : /\ rows' = rows \cup {[code |-> c, scope |-> s]}
               /\ \/ s = ScopeOf[c]
                  \/ s = NoScope /\ ScopeFile \notin schema
  <2>1. CASE image[p] >= ScopeFile
    BY <2>1 DEF inferScopeType
  <2>2. CASE ~(image[p] >= ScopeFile)
    BY <2>2
  <2> QED
    BY <2>1, <2>2
<1>2. [code |-> c, scope |-> s] \in Row
  BY <1>1, MigrationsAssumption DEF Row
<1>3. RowInv'
  BY <1>1 DEF RowInv
<1>4. TypeOK' /\ TransactionInv' /\ LockInv' /\ applied' = schema' /\ LoopInv'
  BY <1>1, <1>2 DEF TypeOK, TransactionInv, LockInv, LoopInv
<1> QED
  BY <1>3, <1>4

LEMMA NextMigrationInv == MigrationInv /\ [MigrationNext]_migrationVars => MigrationInv'
<1> SUFFICES ASSUME MigrationInv, [MigrationNext]_migrationVars PROVE MigrationInv'
  OBVIOUS
<1>1. ASSUME UNCHANGED migrationVars PROVE MigrationInv'
  BY <1>1 DEF migrationVars, database, process, MigrationInv, TypeOK, TransactionInv, LockInv, RowInv, LoopInv
<1> QED
  BY <1>1, CreateLedgerStep, ReadAppliedStep, BeginStep, ExecuteStep, RecordStep, CommitStep, QueryFailsStep,
     EndStep, MigratedStep, RestartStep, InsertStep DEF MigrationNext, Step

\* The tables and the processes' memories keep their types.
THEOREM TypeCorrect == MigrationSpec => []TypeOK
<1>1. MigrationInv => TypeOK
  BY DEF MigrationInv
<1> QED
  BY <1>1, InitMigrationInv, NextMigrationInv, PTL DEF MigrationSpec

\* Whatever races, fails or dies, a migration is recorded exactly when it has taken
\* effect, and none is committed twice.
THEOREM LedgerCorrect == MigrationSpec => []LedgerMatchesSchema
<1>1. MigrationInv => LedgerMatchesSchema
  BY DEF MigrationInv, LedgerMatchesSchema, TransactionInv
<1> QED
  BY <1>1, InitMigrationInv, NextMigrationInv, PTL DEF MigrationSpec

\* After the scope migration every row is found by the queries of its tier.
THEOREM RowsFound == MigrationSpec => []EveryRowIsFound
<1>1. MigrationInv => EveryRowIsFound
  BY DEF MigrationInv, RowInv, EveryRowIsFound, Listed, inferScopeType
<1> QED
  BY <1>1, InitMigrationInv, NextMigrationInv, PTL DEF MigrationSpec

\* A process serves only when the database has every migration of its image.
THEOREM ServersMigrated == MigrationSpec => []ServingIsMigrated
<1>1. MigrationInv => ServingIsMigrated
  BY DEF MigrationInv, LoopInv, ServingIsMigrated
<1> QED
  BY <1>1, InitMigrationInv, NextMigrationInv, PTL DEF MigrationSpec

-----------------------------------------------------------------------------
(* The subscriptions, for every set of addresses and number of tokens.  IInv *)
(* ties every mail, on its way or delivered, to the row of the address it    *)
(* went to.                                                                  *)

Kind == {"confirmation", "digest"}
Mails == [kind : Kind, to : Address, token : Nat, round : Nat]

TypeInv ==
    /\ token \in [Address -> Nat]
    /\ confirmed \in [Address -> BOOLEAN]
    /\ unsubscribed \in [Address -> BOOLEAN]
    /\ round \in [Address -> Nat]
    /\ issued \in Nat
    /\ outbox \subseteq Mails
    /\ mailbox \subseteq Mails
    /\ consents \subseteq Address \X Nat

\* Tokens are stored once, for one address; an address without one is untouched.
TokenInv ==
    /\ \A a \in Address : token[a] <= issued
    /\ \A a, b \in Address : token[a] = token[b] /\ token[a] # NoToken => a = b
    /\ \A a \in Address : token[a] = NoToken => ~confirmed[a] /\ ~unsubscribed[a]

\* A mail of the current round carries the token of the row and the other way round;
\* an unsubscription leaves no mail of the round that follows it.
MailInv(m) ==
    /\ m.token \in 1..issued
    /\ token[m.to] # NoToken
    /\ \A a \in Address : token[a] = m.token => a = m.to
    /\ m.round <= round[m.to]
    /\ unsubscribed[m.to] => m.round < round[m.to]
    /\ ~unsubscribed[m.to] => (m.token = token[m.to] <=> m.round = round[m.to])
    /\ m.kind = "digest" => <<m.to, m.round>> \in consents
MailsInv == \A m \in outbox \cup mailbox : MailInv(m)

ConsentInv ==
    \A a \in Address : confirmed[a] /\ ~unsubscribed[a] => <<a, round[a]>> \in consents

IInv == TypeInv /\ TokenInv /\ MailsInv /\ ConsentInv

-----------------------------------------------------------------------------

LEMMA InitIInv == Init => IInv
BY DEF Init, IInv, TypeInv, TokenInv, MailsInv, ConsentInv, NoToken

\* Subscribe stores a token no mail carries, or leaves the row as it is.
LEMMA SubscribeStep ==
    ASSUME IInv, NEW a \in Address, Subscribe(a)
    PROVE  IInv'
<1> USE DEF IInv, NoToken
<1> DEFINE Asked(n) == n = Mail("confirmation", a, token'[a])
<1>1. StoredToken(a) \in Nat /\ ConfirmedOnConflict(a) \in BOOLEAN
  <2>1. StoredToken(a) \in Nat
    BY DEF TypeInv, StoredToken
  <2>2. ConfirmedOnConflict(a) \in BOOLEAN
    BY Zenon DEF TypeInv, ConfirmedOnConflict
  <2> QED
    BY <2>1, <2>2
<1>2. /\ token'[a] \in Nat \ {0} /\ issued' \in Nat /\ issued <= issued' /\ token'[a] <= issued'
      /\ \A b \in Address : b # a => /\ token'[b] = token[b]
                                     /\ confirmed'[b] = confirmed[b]
                                     /\ unsubscribed'[b] = unsubscribed[b]
      /\ ~unsubscribed'[a]
      /\ UNCHANGED <<mailbox, round, consents>>
      /\ \A n \in outbox' : n \in outbox \/ Asked(n)
  BY <1>1 DEF Subscribe, TypeInv, TokenInv, StoredToken, Token, history
<1>3. TypeInv'
  <2>1. ASSUME NEW n, Asked(n) PROVE n \in Mails
    BY <1>2, <2>1 DEF Mail, Mails, Kind, TypeInv
  <2>2. /\ token' \in [Address -> Nat]
        /\ confirmed' \in [Address -> BOOLEAN]
        /\ unsubscribed' \in [Address -> BOOLEAN]
    BY <1>1 DEF Subscribe, TypeInv
  <2> QED
    BY <1>2, <2>1, <2>2 DEF TypeInv
<1>4. CASE token[a] = NoToken \/ unsubscribed[a]
  <2>1. token'[a] = issued + 1 /\ issued' = issued + 1 /\ ~confirmed'[a]
    BY <1>4 DEF Subscribe, TypeInv, TokenInv, StoredToken, ConfirmedOnConflict
  <2>2. TokenInv'
    BY <1>2, <2>1 DEF TokenInv, TypeInv
  <2>3. ASSUME NEW m \in outbox \cup mailbox PROVE MailInv(m)'
    <3>1. MailInv(m) /\ m \in Mails
      BY DEF MailsInv, TypeInv
    <3>2. m.to = a => unsubscribed[a]
      BY <1>4, <3>1 DEF MailInv
    <3> QED
      BY <1>2, <2>1, <3>1, <3>2 DEF MailInv, Mails, TypeInv
  <2>4. ASSUME NEW n, Asked(n) PROVE MailInv(n)'
    <3>1. n.to = a /\ n.token = token'[a] /\ n.round = round[a] /\ n.kind = "confirmation"
      BY <2>4 DEF Mail
    <3>2. \A b \in Address : token'[b] = token'[a] => b = a
      BY <1>2, <2>2 DEF TokenInv
    <3>3. round'[a] = round[a] /\ round[a] \in Nat
      BY <1>2 DEF TypeInv
    <3> QED
      BY <1>2, <3>1, <3>2, <3>3 DEF MailInv
  <2>5. ConsentInv'
    BY <1>2, <2>1 DEF ConsentInv
  <2> QED
    <3>1. MailsInv'
      BY <1>2, <2>3, <2>4 DEF MailsInv
    <3> QED
      BY <1>3, <2>2, <2>5, <3>1
<1>5. CASE token[a] # NoToken /\ ~unsubscribed[a]
  <2>1. UNCHANGED <<row, issued>>
    BY <1>5 DEF Subscribe, TypeInv, TokenInv, StoredToken, ConfirmedOnConflict, row
  <2>2. TokenInv' /\ ConsentInv'
    BY <1>2, <2>1 DEF TokenInv, ConsentInv, row
  <2>3. ASSUME NEW m \in outbox \cup mailbox PROVE MailInv(m)'
    BY <1>2, <2>1 DEF MailsInv, MailInv, row
  <2>4. ASSUME NEW n, Asked(n) PROVE MailInv(n)'
    <3>1. n.to = a /\ n.token = token[a] /\ n.round = round[a] /\ n.kind = "confirmation"
      BY <2>1, <2>4 DEF Mail, row
    <3> QED
      BY <1>2, <1>5, <2>1, <3>1 DEF MailInv, TypeInv, TokenInv, row
  <2>5. MailsInv'
    BY <1>2, <2>3, <2>4 DEF MailsInv
  <2> QED
    BY <1>3, <2>2, <2>5
<1> QED
  BY <1>4, <1>5

\* A row that a confirmation link matches is of the link's round.
LEMMA ConfirmStep ==
    ASSUME IInv, NEW m \in mailbox, Confirm(m)
    PROVE  IInv'
<1> USE DEF IInv, NoToken
<1>1. MailInv(m) /\ m \in Mails
  BY DEF MailsInv, TypeInv
<1>2. TypeInv'
  BY <1>1 DEF Confirm, TypeInv, Mails
<1>3. TokenInv'
  BY <1>1 DEF Confirm, TokenInv, TypeInv, MailInv, Mails
<1>4. MailsInv'
  BY DEF Confirm, MailsInv, MailInv
<1>5. ConsentInv'
  <2> SUFFICES ASSUME NEW a \in Address, confirmed'[a], ~unsubscribed'[a]
               PROVE  <<a, round'[a]>> \in consents'
    BY DEF ConsentInv
  <2>1. CASE confirmed[a]
    BY <2>1 DEF Confirm, ConsentInv
  <2>2. CASE ~confirmed[a]
    <3>1. token[a] = m.token /\ ~unsubscribed[a]
      BY <2>2 DEF Confirm, TypeInv
    <3>2. a = m.to /\ m.round = round[a]
      BY <1>1, <3>1 DEF MailInv
    <3> QED
      BY <3>2 DEF Confirm
  <2> QED
    BY <2>1, <2>2
<1> QED
  BY <1>2, <1>3, <1>4, <1>5

\* An unsubscription moves the address to a round no mail is of.
LEMMA UnsubscribeStep ==
    ASSUME IInv, NEW m \in mailbox, Unsubscribe(m)
    PROVE  IInv'
<1> USE DEF IInv, NoToken
<1> DEFINE ended == {a \in Address : token[a] = m.token /\ ~unsubscribed[a]}
<1>1. /\ UNCHANGED <<token, confirmed, issued, outbox, mailbox, consents>>
      /\ \A a \in Address : /\ unsubscribed'[a] = (unsubscribed[a] \/ a \in ended)
                            /\ round'[a] = IF a \in ended THEN round[a] + 1 ELSE round[a]
  BY DEF Unsubscribe
<1>2. TypeInv'
  <2>1. unsubscribed' \in [Address -> BOOLEAN] /\ round' \in [Address -> Nat]
    BY DEF Unsubscribe, TypeInv
  <2> QED
    BY <1>1, <2>1 DEF TypeInv
<1>3. TokenInv'
  <2>1. m.token \in 1..issued
    BY DEF MailsInv, MailInv, Unsubscribe
  <2>2. m.token # NoToken
    BY <2>1 DEF TypeInv
  <2> QED
    BY <1>1, <2>2 DEF TokenInv
<1>4. ASSUME NEW n \in outbox \cup mailbox PROVE MailInv(n)'
  <2>1. MailInv(n) /\ n \in Mails
    BY DEF MailsInv, TypeInv
  <2>2. n.to \in Address /\ n.round \in Nat /\ round[n.to] \in Nat
    BY <2>1 DEF Mails, TypeInv
  <2>3. CASE n.to \in ended
    <3>1. ~unsubscribed[n.to] /\ unsubscribed'[n.to] /\ round'[n.to] = round[n.to] + 1
      BY <1>1, <2>2, <2>3
    <3>2. n.round < round'[n.to]
      BY <2>1, <2>2, <3>1 DEF MailInv
    <3> QED
      BY <1>1, <2>1, <2>2, <3>1, <3>2 DEF MailInv
  <2>4. CASE n.to \notin ended
    <3>1. (unsubscribed'[n.to] <=> unsubscribed[n.to]) /\ round'[n.to] = round[n.to]
      BY <1>1, <2>2, <2>4
    <3> QED
      BY <1>1, <2>1, <3>1 DEF MailInv
  <2> QED
    BY <2>3, <2>4
<1>5. ConsentInv'
  BY <1>1 DEF ConsentInv
<1> QED
  BY <1>1, <1>2, <1>3, <1>4, <1>5 DEF MailsInv

\* A digest is addressed to subscribers, who have consented to this round.
LEMMA DigestStep ==
    ASSUME IInv, SendDigest
    PROVE  IInv'
<1> USE DEF IInv, NoToken
<1>1. UNCHANGED <<row, issued, mailbox, history>>
  BY DEF SendDigest
<1>2. ASSUME NEW n \in outbox' PROVE n \in Mails /\ MailInv(n)
  <2>1. CASE n \in outbox
    BY <2>1 DEF TypeInv, MailsInv
  <2>2. CASE n \notin outbox
    <3>1. PICK a \in Address : confirmed[a] /\ ~unsubscribed[a] /\ n = Mail("digest", a, token[a])
      BY <2>2 DEF SendDigest, Subscribers
    <3>2. n.kind = "digest" /\ n.to = a /\ n.token = token[a] /\ n.round = round[a]
      BY <3>1 DEF Mail
    <3>3. n \in Mails
      BY <3>1 DEF Mail, Mails, Kind, TypeInv
    <3>4. MailInv(n)
      BY <3>1, <3>2 DEF MailInv, TokenInv, ConsentInv, TypeInv
    <3> QED
      BY <3>3, <3>4
  <2> QED
    BY <2>1, <2>2
<1>3. TypeInv'
  BY <1>1, <1>2 DEF TypeInv, row, history
<1>4. TokenInv' /\ ConsentInv'
  BY <1>1 DEF TokenInv, ConsentInv, row, history
<1>5. MailsInv'
  BY <1>1, <1>2 DEF MailsInv, MailInv, row, history
<1> QED
  BY <1>3, <1>4, <1>5

LEMMA DeliveryStep ==
    ASSUME IInv, NEW m \in outbox, Deliver(m) \/ Lose(m)
    PROVE  IInv'
<1>1. /\ UNCHANGED <<row, issued, history>>
      /\ outbox' \cup mailbox' \subseteq outbox \cup mailbox
  BY DEF Deliver, Lose
<1> QED
  BY <1>1 DEF IInv, TypeInv, TokenInv, MailsInv, MailInv, ConsentInv, row, history

LEMMA NextIInv == IInv /\ [Next]_vars => IInv'
<1> SUFFICES ASSUME IInv, [Next]_vars PROVE IInv'
  OBVIOUS
<1>1. ASSUME UNCHANGED vars PROVE IInv'
  BY <1>1 DEF vars, row, history, IInv, TypeInv, TokenInv, MailsInv, MailInv, ConsentInv
<1> QED
  BY <1>1, SubscribeStep, ConfirmStep, UnsubscribeStep, DigestStep, DeliveryStep DEF Next

\* The rows, the mails and the consents always fit together, for any number of
\* addresses and whatever order links are used in.
THEOREM InductiveInvariant == Spec => []IInv
BY InitIInv, NextIInv, PTL DEF Spec

\* Nobody is subscribed without having used a link asked for since last unsubscribing.
THEOREM ConsentNeeded == Spec => []NoSubscriptionWithoutConsent
<1>1. IInv => NoSubscriptionWithoutConsent
  BY DEF IInv, ConsentInv, NoSubscriptionWithoutConsent, Subscribers
<1> QED
  BY <1>1, InductiveInvariant, PTL

\* The links in all mails of a subscription work until it ends.
THEOREM LinksWork == Spec => []LinksOfThisSubscriptionWork
<1>1. IInv => LinksOfThisSubscriptionWork
  BY DEF IInv, MailsInv, MailInv, LinksOfThisSubscriptionWork
<1> QED
  BY <1>1, InductiveInvariant, PTL

\* A digest goes only to an owner who had confirmed.
THEOREM DigestsConsented == Spec => []DigestsOnlyOnConsent
<1>1. IInv => DigestsOnlyOnConsent
  BY DEF IInv, MailsInv, MailInv, DigestsOnlyOnConsent
<1> QED
  BY <1>1, InductiveInvariant, PTL

=============================================================================
