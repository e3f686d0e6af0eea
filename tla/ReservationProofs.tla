-------------------------- MODULE ReservationProofs --------------------------
(***************************************************************************)
(* What holds of the two ways GPUs are reserved, for any number of them.   *)
(*                                                                         *)
(* Project quotas (Quota), for any number of clients, reservations and     *)
(* workspaces: the counters of project_quotas always equal what the rows   *)
(* hold, stay within the hard limit, and a reservation only moves along    *)
(* its lifecycle.  The accounting invariant alone is not inductive: an     *)
(* open transaction will add the difference it computed when it locked its *)
(* row.  Inv therefore says that the difference is still the right one     *)
(* (the row is locked), and that the transaction holding the quota row     *)
(* still fits.  So Quota implements Allocation.                            *)
(*                                                                         *)
(* Orders, instances and the wallet of the reference API (Leases), for any *)
(* number of handlers, resources and orders: locks exclude, a resource is  *)
(* rented once, a lease is repaid once and only what it was charged, and   *)
(* the balance is what the billing entries add up to.  LeasesInv adds what *)
(* the handlers know between their awaits: the lock they hold, what they   *)
(* looked at and whether it can have changed, the order that is theirs,    *)
(* the charge behind what they work on, and who is about to repay what a   *)
(* terminated instance did not use.  So Leases implements Rental.          *)
(***************************************************************************)
EXTENDS Quota, Leases, FiniteSetTheorems, TLAPS

-----------------------------------------------------------------------------
(* Project quotas: what one row holds, and how Units changes with a row *)

Held(row, S) == IF row.status \in S THEN row.amount ELSE 0

RowType == [status : Status, amount : 0..MaxAmount]

\* The GPUs of one row are counted one by one.
LEMMA OwnUnits ==
    ASSUME NEW h, NEW m \in Nat
    PROVE  /\ IsFiniteSet({h} \X (1..m))
           /\ Cardinality({h} \X (1..m)) = m
<1>1. IsFiniteSet({h}) /\ Cardinality({h}) = 1
  BY FS_Singleton
<1>2. IsFiniteSet(1..m) /\ Cardinality(1..m) = m
  BY FS_Interval
<1>3. /\ IsFiniteSet({h} \X (1..m))
      /\ Cardinality({h} \X (1..m)) = Cardinality({h}) * Cardinality(1..m)
  BY <1>1, <1>2, FS_Product, Zenon
<1> QED
  BY <1>1, <1>2, <1>3

\* Changing one row changes what the rows hold by what that row holds.
LEMMA UnitsChange ==
    ASSUME NEW rs \in [Holders -> RowType], NEW h \in Holders,
           NEW row \in RowType, NEW S, NEW rt, rt = [rs EXCEPT ![h] = row]
    PROVE  /\ Cardinality(Units(rs, S)) \in Nat
           /\ Cardinality(Units(rt, S)) \in Nat
           /\ Cardinality(Units(rt, S)) = Cardinality(Units(rs, S))
                + Held(row, S) - Held(rs[h], S)
<1> DEFINE Rest == {u \in Units(rs, S) : u[1] # h}
           Own(m) == {h} \X (1..m)
           old == Held(rs[h], S)
           new == Held(row, S)
<1>1. MaxAmount \in Nat /\ IsFiniteSet(Holders)
  BY QuotaAssumption, FS_Union DEF Holders
<1>2. IsFiniteSet(Holders \X Amounts)
  <2>1. IsFiniteSet(Amounts)
    BY <1>1, FS_Interval DEF Amounts
  <2> QED
    BY <1>1, <2>1, FS_Product, Zenon
<1>3. IsFiniteSet(Rest)
  <2>1. Rest \in SUBSET (Holders \X Amounts)
    BY DEF Units
  <2> QED
    BY <1>2, <2>1, FS_Subset, Zenon
<1>4. old \in 0..MaxAmount /\ new \in 0..MaxAmount
  BY <1>1 DEF Held, RowType
<1>5. Units(rs, S) = Rest \cup Own(old)
  BY <1>1 DEF Units, Held, Amounts, RowType
<1>6. Units(rt, S) = Rest \cup Own(new)
  <2>1. rt[h] = row
    OBVIOUS
  <2>2. \A g \in Holders : g # h => rt[g] = rs[g]
    OBVIOUS
  <2>3. ASSUME NEW u \in Units(rt, S) PROVE u \in Rest \cup Own(new)
    <3>1. CASE u[1] = h
      BY <1>1, <2>1, <3>1 DEF Units, Held, Amounts
    <3>2. CASE u[1] # h
      BY <2>2, <3>2 DEF Units
    <3> QED
      BY <3>1, <3>2
  <2>4. ASSUME NEW u \in Rest PROVE u \in Units(rt, S)
    BY <2>2 DEF Units
  <2>5. ASSUME NEW u \in Own(new) PROVE u \in Units(rt, S)
    <3>1. u[1] = h /\ u[2] \in 1..new /\ u = <<u[1], u[2]>>
      OBVIOUS
    <3>2. row.status \in S /\ new = row.amount /\ row.amount \in 0..MaxAmount
      BY <1>1, <1>4, <3>1 DEF Held, RowType
    <3>3. u[2] \in Amounts /\ u[2] <= row.amount
      BY <1>1, <3>1, <3>2 DEF Amounts
    <3> QED
      BY <2>1, <3>1, <3>2, <3>3 DEF Units
  <2> QED
    BY <2>3, <2>4, <2>5
<1>7. ASSUME NEW m \in 0..MaxAmount
      PROVE  /\ Cardinality(Rest \cup Own(m)) = Cardinality(Rest) + m
             /\ Cardinality(Rest \cup Own(m)) \in Nat
  <2> m \in Nat
    BY <1>1
  <2>1. IsFiniteSet(Own(m)) /\ Cardinality(Own(m)) = m
    BY OwnUnits, Zenon
  <2>2. Rest \cap Own(m) = {}
    OBVIOUS
  <2>3. Cardinality(Rest \cap Own(m)) = 0
    BY <2>2, FS_EmptySet
  <2>4. Cardinality(Rest \cup Own(m))
          = Cardinality(Rest) + Cardinality(Own(m)) - Cardinality(Rest \cap Own(m))
    BY <1>3, <2>1, FS_Union, Zenon
  <2>5. Cardinality(Rest) \in Nat
    BY <1>3, FS_CardinalityType
  <2> QED
    BY <2>1, <2>3, <2>4, <2>5
<1>8. Cardinality(Rest) \in Nat
  BY <1>3, FS_CardinalityType
<1>9. /\ Cardinality(Units(rs, S)) = Cardinality(Rest) + old
      /\ Cardinality(Units(rs, S)) \in Nat
  BY <1>4, <1>5, <1>7, Zenon
<1>10. /\ Cardinality(Units(rt, S)) = Cardinality(Rest) + new
       /\ Cardinality(Units(rt, S)) \in Nat
  BY <1>4, <1>6, <1>7, Zenon
<1> HIDE DEF Rest, Own, old, new
<1>11. Cardinality(Units(rt, S)) = Cardinality(Units(rs, S)) + new - old
  BY <1>1, <1>4, <1>8, <1>9, <1>10
<1> QED
  BY <1>9, <1>10, <1>11 DEF old, new

-----------------------------------------------------------------------------
(* The inductive invariant *)

\* TypeOK with counters that are only integers: that they are not negative
\* follows from the accounting.
Types ==
    /\ quota \in [exists : BOOLEAN, hard : Nat, reserved : Int, allocated : Int]
    /\ rows \in [Holders -> RowType]
    /\ \A r \in Reservations : rows[r].status \in {"absent"} \cup ReservationStatus
    /\ \A x \in Workspaces : rows[x].status \in {"absent"} \cup DesiredState
    /\ locks \in [Holders -> Clients \cup {NoClient}]
    /\ quotaLock \in Clients \cup {NoClient}
    /\ tx \in [Clients -> Transaction \cup {NoTransaction}]

\* What transaction t may be, given the row it locks.
Sound(t) ==
    LET old == rows[t.row] IN
    /\ t.dr = Held(t, Reserving) - Held(old, Reserving)
    /\ t.da = Held(t, Allocating) - Held(old, Allocating)
    /\ t.row \in Reservations =>
         /\ t.status \in ReservationStatus
         /\ (old.status = "absent" /\ t.status = "pending") \/ Allowed(old.status, t.status)
    /\ t.row \in Workspaces =>
         /\ t.status \in DesiredState
         /\ old.status = "absent" => t.status = "running"
    /\ IF old.status = "absent" THEN t.amount \in Amounts ELSE t.amount = old.amount

RowsLocked == \A c \in Clients : tx[c] # NoTransaction => locks[tx[c].row] = c

AllSound == \A c \in Clients : tx[c] # NoTransaction => Sound(tx[c])

QuotaLocked ==
    quotaLock # NoClient =>
        /\ tx[quotaLock] # NoTransaction
        /\ Fits(tx[quotaLock].dr, tx[quotaLock].da)

Inv == Types /\ RowsLocked /\ AllSound /\ QuotaLocked /\ Accounting /\ WithinLimit

\* The initial counters count nothing.
LEMMA InitInv == Init => Inv
<1> SUFFICES ASSUME Init PROVE Inv
  OBVIOUS
<1>1. Types
  <2>1. rows \in [Holders -> RowType]
    BY QuotaAssumption DEF Init, RowType, Status
  <2>2. /\ \A r \in Reservations : rows[r].status = "absent"
        /\ \A x \in Workspaces : rows[x].status = "absent"
    BY DEF Init, Holders
  <2> QED
    BY <2>1, <2>2 DEF Init, Types
<1>2. RowsLocked /\ AllSound /\ QuotaLocked /\ WithinLimit
  BY DEF Init, RowsLocked, AllSound, QuotaLocked, WithinLimit
<1>3. Units(rows, Reserving) = {} /\ Units(rows, Allocating) = {}
  BY DEF Init, Units, Reserving, Allocating
<1>4. Accounting
  BY <1>3, FS_EmptySet DEF Init, Accounting
<1> QED
  BY <1>1, <1>2, <1>4 DEF Inv

-----------------------------------------------------------------------------
(* Steps *)

\* A transaction that opens soundly, and takes the quota row only if it fits.
LEMMA OpensInv ==
    ASSUME Inv, UNCHANGED <<quota, rows>>,
           NEW c \in Clients, NEW h \in Holders, NEW status \in Status,
           NEW n \in 0..MaxAmount, NEW dr \in Int, NEW da \in Int,
           Opens(c, h, status, n, dr, da),
           Sound([row |-> h, status |-> status, amount |-> n, dr |-> dr, da |-> da]),
           \/ quotaLock' = quotaLock
           \/ quotaLock' = c /\ quotaLock = NoClient /\ Fits(dr, da)
    PROVE  Inv'
<1> DEFINE t == [row |-> h, status |-> status, amount |-> n, dr |-> dr, da |-> da]
<1>1. /\ tx' = [tx EXCEPT ![c] = t]
      /\ locks' = [locks EXCEPT ![h] = c]
      /\ tx[c] = NoTransaction
      /\ locks[h] = NoClient
  BY DEF Opens
<1>2. t \in Transaction /\ t # NoTransaction
  BY QuotaAssumption DEF Transaction, NoTransaction
<1>3. /\ t.row = h /\ t.status = status /\ t.amount = n /\ t.dr = dr /\ t.da = da
      /\ Sound(t)
  OBVIOUS
<1> HIDE DEF t
<1>4. Types'
  BY <1>1, <1>2 DEF Inv, Types
<1>5. tx'[c] = t /\ \A d \in Clients : d # c => tx'[d] = tx[d]
  BY <1>1 DEF Inv, Types
<1>6. RowsLocked'
  <2> SUFFICES ASSUME NEW d \in Clients, tx'[d] # NoTransaction PROVE locks'[tx'[d].row] = d
    BY DEF RowsLocked
  <2>1. CASE d = c
    BY <1>1, <1>3, <1>5, <2>1 DEF Inv, Types
  <2>2. CASE d # c
    <3>1. tx'[d] = tx[d] /\ locks[tx[d].row] = d /\ tx[d].row \in Holders
      BY <1>5, <2>2 DEF Inv, RowsLocked, Types, Transaction
    <3>2. tx[d].row # h
      BY <1>1, <3>1, QuotaAssumption
    <3> QED
      BY <1>1, <3>1, <3>2 DEF Inv, Types
  <2> QED
    BY <2>1, <2>2
<1>7. AllSound'
  <2> SUFFICES ASSUME NEW d \in Clients, tx'[d] # NoTransaction PROVE Sound(tx[d])'
    BY DEF AllSound
  <2>1. Sound(tx'[d])
    BY <1>3, <1>5 DEF Inv, AllSound
  <2> QED
    BY <2>1 DEF Sound
<1>8. QuotaLocked'
  <2> SUFFICES ASSUME quotaLock' # NoClient
               PROVE  /\ tx'[quotaLock'] # NoTransaction
                      /\ Fits(tx[quotaLock].dr, tx[quotaLock].da)'
    BY DEF QuotaLocked
  <2>1. CASE quotaLock' = c /\ quotaLock = NoClient /\ Fits(dr, da)
    BY <1>2, <1>3, <1>5, <2>1 DEF Fits
  <2>2. CASE quotaLock' = quotaLock
    <3>1. quotaLock \in Clients /\ tx[quotaLock] # NoTransaction /\ quotaLock # c
      BY <1>1, <2>2 DEF Inv, QuotaLocked, Types
    <3>2. Fits(tx[quotaLock].dr, tx[quotaLock].da)
      BY <2>2 DEF Inv, QuotaLocked
    <3> QED
      BY <1>5, <2>2, <3>1, <3>2 DEF Fits
  <2> QED
    BY <2>1, <2>2
<1>9. Accounting' /\ WithinLimit'
  BY DEF Inv, Accounting, WithinLimit
<1> QED
  BY <1>4, <1>6, <1>7, <1>8, <1>9 DEF Inv

\* SetQuota changes the limit only, and only to one that covers the usage.
LEMMA SetQuotaInv ==
    ASSUME Inv, NEW limit \in Limits, SetQuota(limit)
    PROVE  Inv'
<1>1. /\ quota' = [quota EXCEPT !.exists = TRUE, !.hard = limit]
      /\ UNCHANGED <<rows, locks, quotaLock, tx>>
      /\ quotaLock = NoClient
      /\ Covers(limit)
      /\ limit \in Nat
  BY QuotaAssumption DEF SetQuota
<1>2. /\ quota'.hard = limit
      /\ quota'.reserved = quota.reserved
      /\ quota'.allocated = quota.allocated
      /\ quota' \in [exists : BOOLEAN, hard : Nat, reserved : Int, allocated : Int]
  BY <1>1 DEF Inv, Types
<1>3. Types' /\ RowsLocked' /\ QuotaLocked'
  BY <1>1, <1>2 DEF Inv, Types, RowsLocked, QuotaLocked
<1>4. AllSound'
  BY <1>1 DEF Inv, AllSound, Sound
<1>5. Accounting' /\ WithinLimit'
  BY <1>1, <1>2 DEF Inv, Accounting, WithinLimit, Covers
<1> QED
  BY <1>3, <1>4, <1>5 DEF Inv

\* A new reservation or workspace: the row is inserted under the quota lock.
LEMMA ReserveInv ==
    ASSUME Inv, NEW c \in Clients, NEW r \in Reservations, NEW n \in Amounts,
           ReserveQuota(c, r, n)
    PROVE  Inv'
<1>1. /\ rows[r].status = "absent"
      /\ Opens(c, r, "pending", n, n, 0)
      /\ UNCHANGED <<quota, rows>>
      /\ quotaLock' = c /\ quotaLock = NoClient /\ Fits(n, 0)
  BY DEF ReserveQuota
<1>2. /\ r \in Holders /\ r \notin Workspaces
      /\ n \in 0..MaxAmount /\ n \in Int /\ 0 \in Int
      /\ "pending" \in Status
  BY QuotaAssumption DEF Holders, Amounts, Status, ReservationStatus
<1>3. Sound([row |-> r, status |-> "pending", amount |-> n, dr |-> n, da |-> 0])
  BY <1>1, <1>2 DEF Sound, Held, Reserving, Allocating, ReservationStatus
<1> QED
  BY <1>1, <1>2, <1>3, OpensInv

LEMMA CreateInv ==
    ASSUME Inv, NEW c \in Clients, NEW x \in Workspaces, NEW n \in Amounts,
           CreateWorkspace(c, x, n)
    PROVE  Inv'
<1>1. /\ rows[x].status = "absent"
      /\ Opens(c, x, "running", n, 0, n)
      /\ UNCHANGED <<quota, rows>>
      /\ quotaLock' = c /\ quotaLock = NoClient /\ Fits(0, n)
  BY DEF CreateWorkspace
<1>2. /\ x \in Holders /\ x \notin Reservations
      /\ n \in 0..MaxAmount /\ n \in Int /\ 0 \in Int
      /\ "running" \in Status
  BY QuotaAssumption DEF Holders, Amounts, Status, DesiredState
<1>3. Sound([row |-> x, status |-> "running", amount |-> n, dr |-> 0, da |-> n])
  BY <1>1, <1>2 DEF Sound, Held, Reserving, Allocating, DesiredState
<1> QED
  BY <1>1, <1>2, <1>3, OpensInv

\* A reservation moves: the differences are those of its lifecycle.
LEMMA TransitionInv ==
    ASSUME Inv, NEW c \in Clients, NEW r \in Reservations, NEW target \in ReservationStatus,
           TransitionReservation(c, r, target)
    PROVE  Inv'
<1> DEFINE was == rows[r].status
           n == rows[r].amount
           dr == ReservedDelta(was, n)
           da == AllocatedDelta(was, target, n)
<1>1. /\ Allowed(was, target)
      /\ Opens(c, r, target, n, dr, da)
      /\ UNCHANGED <<quota, rows, quotaLock>>
  BY DEF TransitionReservation
<1>2. /\ r \in Holders /\ r \notin Workspaces
      /\ n \in 0..MaxAmount /\ n \in Int
      /\ target \in Status
  BY QuotaAssumption DEF Inv, Types, RowType, Holders, Status
<1>3. /\ dr \in Int /\ da \in Int
      /\ dr = Held([status |-> target, amount |-> n], Reserving) - Held(rows[r], Reserving)
      /\ da = Held([status |-> target, amount |-> n], Allocating) - Held(rows[r], Allocating)
  BY <1>1, <1>2
     DEF Allowed, ReservedDelta, AllocatedDelta, Held, Reserving, Allocating, ReservationStatus
<1> HIDE DEF dr, da
<1>4. Sound([row |-> r, status |-> target, amount |-> n, dr |-> dr, da |-> da])
  BY <1>1, <1>2, <1>3 DEF Sound, Held, Allowed
<1> QED
  BY <1>1, <1>2, <1>3, <1>4, OpensInv

\* A workspace changes its desired state.
LEMMA DesireInv ==
    ASSUME Inv, NEW c \in Clients, NEW x \in Workspaces, NEW desired \in DesiredState,
           SetDesiredState(c, x, desired)
    PROVE  Inv'
<1> DEFINE current == rows[x].status
           n == rows[x].amount
           da == WorkspaceQuotaDelta(current, desired, n)
<1>1. /\ current # "absent"
      /\ Opens(c, x, desired, n, 0, da)
      /\ UNCHANGED <<quota, rows, quotaLock>>
  BY DEF SetDesiredState
<1>2. /\ x \in Holders /\ x \notin Reservations
      /\ n \in 0..MaxAmount /\ n \in Int /\ 0 \in Int
      /\ desired \in Status
      /\ current \in {"absent"} \cup DesiredState
  BY QuotaAssumption DEF Inv, Types, RowType, Holders, Status
<1>3. /\ da \in Int
      /\ 0 = Held([status |-> desired, amount |-> n], Reserving) - Held(rows[x], Reserving)
      /\ da = Held([status |-> desired, amount |-> n], Allocating) - Held(rows[x], Allocating)
  BY <1>2 DEF WorkspaceQuotaDelta, Held, Reserving, Allocating, DesiredState
<1> HIDE DEF da
<1>4. Sound([row |-> x, status |-> desired, amount |-> n, dr |-> 0, da |-> da])
  BY <1>1, <1>2, <1>3 DEF Sound, Held
<1> QED
  BY <1>1, <1>2, <1>3, <1>4, OpensInv

\* Taking the quota row.
LEMMA UpdateQuotaInv ==
    ASSUME Inv, NEW c \in Clients, UpdateQuota(c)
    PROVE  Inv'
<1>1. /\ tx[c] # NoTransaction /\ Fits(tx[c].dr, tx[c].da)
      /\ quotaLock' = c
      /\ UNCHANGED <<quota, rows, locks, tx>>
  BY DEF UpdateQuota
<1>2. Types' /\ RowsLocked'
  BY <1>1 DEF Inv, Types, RowsLocked
<1>3. AllSound'
  BY <1>1 DEF Inv, AllSound, Sound
<1>4. QuotaLocked'
  BY <1>1 DEF QuotaLocked, Fits
<1>5. Accounting' /\ WithinLimit'
  BY <1>1 DEF Inv, Accounting, WithinLimit
<1> QED
  BY <1>2, <1>3, <1>4, <1>5 DEF Inv

\* A transaction that ends releases its locks and nobody else's, provided the
\* quota stays as it was or was this transaction's to change.
LEMMA ClosesInv ==
    ASSUME Inv, NEW c \in Clients, tx[c] # NoTransaction, Closes(c),
           \/ UNCHANGED <<quota, rows>>
           \/ /\ Types!1' /\ Types!2' /\ Types!3' /\ Types!4'
              /\ \A h \in Holders : h # tx[c].row => rows'[h] = rows[h]
              /\ quotaLock = c \/ UNCHANGED quota
    PROVE  Types' /\ RowsLocked' /\ AllSound' /\ QuotaLocked'
<1>1. /\ locks' = [locks EXCEPT ![tx[c].row] = NoClient]
      /\ quotaLock' = IF quotaLock = c THEN NoClient ELSE quotaLock
      /\ tx' = [tx EXCEPT ![c] = NoTransaction]
  BY DEF Closes
<1>2. tx[c].row \in Holders /\ locks[tx[c].row] = c
  BY DEF Inv, Types, RowsLocked, Transaction
<1>3. tx'[c] = NoTransaction /\ \A d \in Clients : d # c => tx'[d] = tx[d]
  BY <1>1 DEF Inv, Types
<1>4. \A h \in Holders : h # tx[c].row => locks'[h] = locks[h]
  BY <1>1 DEF Inv, Types
<1>5. ASSUME NEW d \in Clients, tx'[d] # NoTransaction
      PROVE  /\ tx'[d] = tx[d] /\ d # c
             /\ tx[d].row \in Holders /\ tx[d].row # tx[c].row
             /\ locks[tx[d].row] = d
  BY <1>2, <1>3, <1>5 DEF Inv, Types, RowsLocked, Transaction
<1>6. Types'
  BY <1>1 DEF Inv, Types
<1>7. RowsLocked'
  BY <1>4, <1>5 DEF RowsLocked
<1>8. AllSound'
  <2> SUFFICES ASSUME NEW d \in Clients, tx'[d] # NoTransaction PROVE Sound(tx[d])'
    BY DEF AllSound
  <2>1. Sound(tx[d])
    BY <1>3, <1>5 DEF Inv, AllSound
  <2>2. rows'[tx[d].row] = rows[tx[d].row]
    BY <1>5
  <2> QED
    BY <1>5, <2>1, <2>2 DEF Sound
<1>9. QuotaLocked'
  <2> SUFFICES ASSUME quotaLock' # NoClient
               PROVE  /\ tx'[quotaLock'] # NoTransaction
                      /\ Fits(tx[quotaLock].dr, tx[quotaLock].da)'
    BY DEF QuotaLocked
  <2>1. quotaLock # c /\ quotaLock' = quotaLock /\ quotaLock \in Clients
    BY <1>1 DEF Inv, Types
  <2>2. tx'[quotaLock] = tx[quotaLock] /\ UNCHANGED quota
    BY <1>3, <2>1
  <2> QED
    BY <2>1, <2>2 DEF Inv, QuotaLocked, Fits
<1> QED
  BY <1>6, <1>7, <1>8, <1>9

LEMMA RollbackInv ==
    ASSUME Inv, NEW c \in Clients, Rollback(c)
    PROVE  Inv'
<1>1. tx[c] # NoTransaction /\ Closes(c) /\ UNCHANGED <<quota, rows>>
  BY DEF Rollback
<1>2. Types' /\ RowsLocked' /\ AllSound' /\ QuotaLocked'
  BY <1>1, ClosesInv
<1>3. Accounting' /\ WithinLimit'
  BY <1>1 DEF Inv, Accounting, WithinLimit
<1> QED
  BY <1>2, <1>3 DEF Inv

\* A commit adds what its row holds more, or less, than before; GREATEST
\* never has anything to correct.
LEMMA CommitCounts ==
    ASSUME Inv, NEW c \in Clients, Commit(c)
    PROVE  /\ Cardinality(Units(rows', Reserving)) = quota.reserved + tx[c].dr
           /\ Cardinality(Units(rows', Allocating)) = quota.allocated + tx[c].da
           /\ NewAllocated(tx[c]) = quota.allocated + tx[c].da
<1> DEFINE t == tx[c]
           new == [status |-> t.status, amount |-> t.amount]
<1>1. /\ t # NoTransaction
      /\ quotaLock = c \/ (t.dr = 0 /\ t.da = 0)
      /\ quota' = [quota EXCEPT !.reserved = @ + t.dr, !.allocated = NewAllocated(t)]
      /\ rows' = [rows EXCEPT ![t.row] = new]
      /\ Closes(c)
  BY DEF Commit
<1>2. t \in Transaction /\ t.row \in Holders /\ Sound(t)
  BY <1>1 DEF Inv, Types, AllSound, Transaction
<1>3. /\ Cardinality(Units(rows', Reserving)) \in Nat
      /\ Cardinality(Units(rows', Allocating)) \in Nat
      /\ Cardinality(Units(rows', Reserving)) = quota.reserved + t.dr
      /\ Cardinality(Units(rows', Allocating)) = quota.allocated + t.da
  <2>1. rows \in [Holders -> RowType] /\ new \in RowType
    BY <1>2 DEF Inv, Types, Transaction, RowType
  <2>2. ASSUME NEW S
        PROVE  /\ Cardinality(Units(rows, S)) \in Nat
               /\ Cardinality(Units(rows', S)) \in Nat
               /\ Cardinality(Units(rows', S)) = Cardinality(Units(rows, S))
                    + Held(new, S) - Held(rows[t.row], S)
    <3> DEFINE h == t.row
               rt == rows'
    <3>1. h \in Holders /\ rt = [rows EXCEPT ![h] = new]
      BY <1>1, <1>2
    <3> HIDE DEF h, rt, new
    <3>2. /\ Cardinality(Units(rows, S)) \in Nat
          /\ Cardinality(Units(rt, S)) \in Nat
          /\ Cardinality(Units(rt, S)) = Cardinality(Units(rows, S))
               + Held(new, S) - Held(rows[h], S)
      BY <2>1, <3>1, UnitsChange
    <3> QED
      BY <3>2 DEF h, rt
  <2>3. ASSUME NEW S PROVE /\ Held(new, S) = Held(t, S)
                           /\ Held(new, S) \in Int
                           /\ Held(rows[t.row], S) \in Int
    BY <1>2, <2>1, QuotaAssumption DEF Held, RowType
  <2> QED
    BY <1>2, <2>2, <2>3 DEF Inv, Accounting, Sound
<1>4. NewAllocated(t) = quota.allocated + t.da
  BY <1>2, <1>3 DEF NewAllocated, AtLeastZero, Inv, Types, Transaction
<1> QED
  BY <1>3, <1>4

\* So the counters match the rows again when the row and the counters have changed.
LEMMA CommitInv ==
    ASSUME Inv, NEW c \in Clients, Commit(c)
    PROVE  Inv'
<1> DEFINE t == tx[c]
           new == [status |-> t.status, amount |-> t.amount]
<1>1. /\ t # NoTransaction
      /\ quotaLock = c \/ (t.dr = 0 /\ t.da = 0)
      /\ quota' = [quota EXCEPT !.reserved = @ + t.dr, !.allocated = NewAllocated(t)]
      /\ rows' = [rows EXCEPT ![t.row] = new]
      /\ Closes(c)
  BY DEF Commit
<1>2. t \in Transaction /\ t.row \in Holders /\ Sound(t)
  BY <1>1 DEF Inv, Types, AllSound, Transaction
<1>3. /\ Cardinality(Units(rows', Reserving)) = quota.reserved + t.dr
      /\ Cardinality(Units(rows', Allocating)) = quota.allocated + t.da
  BY CommitCounts
<1>4. NewAllocated(t) = quota.allocated + t.da
  BY CommitCounts
<1>5. /\ quota'.reserved = quota.reserved + t.dr
      /\ quota'.allocated = quota.allocated + t.da
      /\ quota'.hard = quota.hard
      /\ quota'.exists = quota.exists
      /\ quota' \in [exists : BOOLEAN, hard : Nat, reserved : Int, allocated : Int]
      /\ (t.dr = 0 /\ t.da = 0) => quota' = quota
  <2> DEFINE r == quota.reserved + t.dr
             a == quota.allocated + t.da
  <2>1. r \in Int /\ a \in Int
        /\ quota \in [exists : BOOLEAN, hard : Nat, reserved : Int, allocated : Int]
    BY <1>2 DEF Inv, Types, Transaction
  <2>2. quota' = [quota EXCEPT !.reserved = r, !.allocated = a]
    BY <1>1, <1>4
  <2>3. (t.dr = 0 /\ t.da = 0) => r = quota.reserved /\ a = quota.allocated
    BY <2>1
  <2> HIDE DEF r, a
  <2>4. /\ quota'.reserved = r /\ quota'.allocated = a
        /\ quota'.hard = quota.hard /\ quota'.exists = quota.exists
        /\ quota' \in [exists : BOOLEAN, hard : Nat, reserved : Int, allocated : Int]
    BY <2>1, <2>2
  <2>5. (r = quota.reserved /\ a = quota.allocated) => quota' = quota
    BY <2>1, <2>2
  <2> QED
    BY <2>3, <2>4, <2>5 DEF r, a
<1>6. /\ rows' \in [Holders -> RowType]
      /\ rows'[t.row].status = t.status
      /\ \A h \in Holders : h # t.row => rows'[h] = rows[h]
  BY <1>1, <1>2 DEF Inv, Types, RowType, Transaction
<1>7. /\ \A r \in Reservations : rows'[r].status \in {"absent"} \cup ReservationStatus
      /\ \A x \in Workspaces : rows'[x].status \in {"absent"} \cup DesiredState
  BY <1>2, <1>6 DEF Inv, Types, Sound, Holders
<1>8. quotaLock = c \/ UNCHANGED quota
  BY <1>1, <1>5
<1>9. Types' /\ RowsLocked' /\ AllSound' /\ QuotaLocked'
  BY <1>1, <1>5, <1>6, <1>7, <1>8, ClosesInv DEF Types
<1>10. Accounting'
  BY <1>3, <1>5 DEF Accounting
<1>11. WithinLimit'
  <2>1. CASE t.dr + t.da > 0
    <3>1. quotaLock = c
      BY <1>1, <2>1
    <3>2. Fits(t.dr, t.da)
      BY <3>1, QuotaAssumption DEF Inv, QuotaLocked
    <3> QED
      BY <1>2, <1>5, <2>1, <3>2 DEF Fits, WithinLimit, Inv, Types, Transaction
  <2>2. CASE t.dr + t.da <= 0
    BY <1>2, <1>5, <2>2 DEF WithinLimit, Inv, Types, Transaction
  <2> QED
    BY <1>2, <2>1, <2>2 DEF Transaction
<1> QED
  BY <1>9, <1>10, <1>11 DEF Inv

\* Every step keeps the invariant.
LEMMA NextInv == Inv /\ [Next]_vars => Inv'
<1> SUFFICES ASSUME Inv, [Next]_vars PROVE Inv'
  OBVIOUS
<1>1. ASSUME NEW limit \in Limits, SetQuota(limit) PROVE Inv'
  BY <1>1, SetQuotaInv
<1>2. ASSUME NEW c \in Clients, NEW r \in Reservations, NEW n \in Amounts,
             ReserveQuota(c, r, n)
      PROVE  Inv'
  BY <1>2, ReserveInv
<1>3. ASSUME NEW c \in Clients, NEW r \in Reservations, NEW target \in ReservationStatus,
             TransitionReservation(c, r, target)
      PROVE  Inv'
  BY <1>3, TransitionInv
<1>4. ASSUME NEW c \in Clients, NEW x \in Workspaces, NEW n \in Amounts,
             CreateWorkspace(c, x, n)
      PROVE  Inv'
  BY <1>4, CreateInv
<1>5. ASSUME NEW c \in Clients, NEW x \in Workspaces, NEW desired \in DesiredState,
             SetDesiredState(c, x, desired)
      PROVE  Inv'
  BY <1>5, DesireInv
<1>6. ASSUME NEW c \in Clients, UpdateQuota(c) PROVE Inv'
  BY <1>6, UpdateQuotaInv
<1>7. ASSUME NEW c \in Clients, Commit(c) PROVE Inv'
  BY <1>7, CommitInv
<1>8. ASSUME NEW c \in Clients, Rollback(c) PROVE Inv'
  BY <1>8, RollbackInv
<1>9. CASE UNCHANGED vars
  <2>1. Types' /\ RowsLocked'
    BY <1>9 DEF vars, Inv, Types, RowsLocked
  <2>2. AllSound' /\ QuotaLocked'
    BY <1>9 DEF vars, Inv, AllSound, Sound, QuotaLocked, Fits
  <2>3. Accounting' /\ WithinLimit'
    BY <1>9 DEF vars, Inv, Accounting, WithinLimit
  <2> QED
    BY <2>1, <2>2, <2>3 DEF Inv
<1> QED
  BY <1>1, <1>2, <1>3, <1>4, <1>5, <1>6, <1>7, <1>8, <1>9 DEF Next

LEMMA InvHolds == Spec => []Inv
<1> QED
  BY InitInv, NextInv, PTL DEF Spec

-----------------------------------------------------------------------------
(* The theorems about project quotas *)

\* Neither counter is ever negative: the state has the type the migrations
\* declare, CHECK (reserved >= 0) and CHECK (allocated >= 0) included.
THEOREM TypeCorrect == Spec => []TypeOK
<1>1. Inv => TypeOK
  <2> SUFFICES ASSUME Inv PROVE TypeOK
    OBVIOUS
  <2>1. Cardinality(Units(rows, Reserving)) \in Nat /\ Cardinality(Units(rows, Allocating)) \in Nat
    <3>1. IsFiniteSet(Holders) /\ IsFiniteSet(Amounts)
      <4>1. MaxAmount \in Int /\ 1 \in Int
        BY QuotaAssumption
      <4>2. IsFiniteSet(Amounts)
        BY <4>1, FS_Interval DEF Amounts
      <4> QED
        BY <4>2, QuotaAssumption, FS_Union DEF Holders
    <3>2. IsFiniteSet(Holders \X Amounts)
      BY <3>1, FS_Product, Zenon
    <3>3. ASSUME NEW S PROVE Cardinality(Units(rows, S)) \in Nat
      <4>1. Units(rows, S) \in SUBSET (Holders \X Amounts)
        BY DEF Units
      <4>2. IsFiniteSet(Units(rows, S))
        BY <3>2, <4>1, FS_Subset, Zenon
      <4> QED
        BY <4>2, FS_CardinalityType, Zenon
    <3> QED
      BY <3>3
  <2>2. quota \in [exists : BOOLEAN, hard : Nat, reserved : Nat, allocated : Nat]
    BY <2>1 DEF Inv, Types, Accounting
  <2> QED
    BY <2>2 DEF Inv, Types, RowType, TypeOK
<1> QED
  BY <1>1, InvHolds, PTL

\* The counters equal what the rows hold, for every number of clients.
THEOREM CountersMatchRows == Spec => []Accounting
<1>1. Inv => Accounting
  BY DEF Inv
<1> QED
  BY <1>1, InvHolds, PTL

\* The limit is never exceeded.
THEOREM LimitRespected == Spec => []WithinLimit
<1>1. Inv => WithinLimit
  BY DEF Inv
<1> QED
  BY <1>1, InvHolds, PTL

\* What a workspace gives back had been counted.
NothingForgiven ==
    \A c \in Clients : Commit(c) => NewAllocated(tx[c]) = quota.allocated + tx[c].da

\* GREATEST(allocated + delta, 0) of adjustWorkspaceQuota never cuts anything off:
\* the counter does not hide that a GPU was returned twice.
THEOREM AllocationExact == Spec => [][NothingForgiven]_vars
<1>1. ASSUME Inv PROVE NothingForgiven
  BY <1>1, CommitCounts DEF NothingForgiven
<1>2. Inv /\ [Next]_vars => [NothingForgiven]_vars
  BY <1>1
<1> QED
  BY <1>2, InvHolds, PTL DEF Spec

\* A reservation only moves along its lifecycle.
THEOREM LifecycleRespected == Spec => ReservationLifecycle
<1> DEFINE Moves == \A r \in Reservations :
                      LET was == rows[r].status
                          is == rows'[r].status
                      IN was # is => (was = "absent" /\ is = "pending") \/ Allowed(was, is)
<1>1. ASSUME Inv, [Next]_vars PROVE [Moves]_vars
  <2>1. CASE UNCHANGED rows
    BY <2>1
  <2>2. ASSUME NEW c \in Clients, Commit(c) PROVE Moves
    <3>1. /\ tx[c] # NoTransaction
          /\ rows' = [rows EXCEPT ![tx[c].row] =
                        [status |-> tx[c].status, amount |-> tx[c].amount]]
      BY <2>2 DEF Commit
    <3>2. tx[c].row \in Holders /\ Sound(tx[c]) /\ rows \in [Holders -> RowType]
      BY <1>1, <3>1 DEF Inv, Types, AllSound, Transaction
    <3>3. /\ rows'[tx[c].row].status = tx[c].status
          /\ \A h \in Holders : h # tx[c].row => rows'[h] = rows[h]
      BY <3>1, <3>2
    <3> QED
      BY <3>2, <3>3 DEF Sound, Holders
  <2>3. UNCHANGED rows \/ \E c \in Clients : Commit(c)
    BY <1>1 DEF Next, vars, SetQuota, ReserveQuota, TransitionReservation, CreateWorkspace,
                SetDesiredState, UpdateQuota, Rollback
  <2> QED
    BY <2>1, <2>2, <2>3
<1> QED
  BY <1>1, InvHolds, PTL DEF Spec, ReservationLifecycle

-----------------------------------------------------------------------------
(* Quota implements Allocation *)

\* A GPU in use is reserved or allocated, so what is in use is what the two
\* counters count.
LEMMA InUseIsCounted ==
    ASSUME NEW rs \in [Holders -> RowType]
    PROVE  Promise!InUse(rs) = Cardinality(Units(rs, Reserving)) + Cardinality(Units(rs, Allocating))
<1> DEFINE R == Units(rs, Reserving)
           A == Units(rs, Allocating)
<1>1. IsFiniteSet(Holders) /\ IsFiniteSet(Amounts)
  <2>1. MaxAmount \in Int /\ 1 \in Int
    BY QuotaAssumption
  <2> QED
    BY <2>1, QuotaAssumption, FS_Interval, FS_Union DEF Amounts, Holders
<1>2. IsFiniteSet(Holders \X Amounts)
  BY <1>1, FS_Product, Zenon
<1>3. R \subseteq Holders \X Amounts /\ A \subseteq Holders \X Amounts
  BY DEF Units
<1>4. IsFiniteSet(R) /\ IsFiniteSet(A)
  BY <1>2, <1>3, FS_Subset, Zenon
<1>5. R \cap A = {}
  BY DEF Units, Reserving, Allocating
<1>6. Promise!InUse(rs) = Cardinality(R \cup A)
  <2> DEFINE Used == {u \in Holders \X Amounts :
                        rs[u[1]].status \in Promise!Using /\ u[2] <= rs[u[1]].amount}
  <2>1. ASSUME NEW u \in Holders \X Amounts
        PROVE  u \in Used <=> u \in R \/ u \in A
    <3>1. rs[u[1]].status \in Promise!Using <=>
            rs[u[1]].status \in Reserving \/ rs[u[1]].status \in Allocating
      BY DEF Promise!Using, Reserving, Allocating
    <3> QED
      BY <3>1, Zenon DEF Units
  <2>2. Used = R \cup A
    <3>1. Used \subseteq Holders \X Amounts
      OBVIOUS
    <3> HIDE DEF Used, R, A
    <3> QED
      BY <1>3, <2>1, <3>1
  <2>3. Promise!InUse(rs) = Cardinality(Used)
    BY DEF Promise!InUse, Promise!Owners, Holders, Amounts, Promise!Cardinality, Cardinality
  <2> QED
    BY <2>2, <2>3, Zenon
<1>7. Cardinality(R \cup A) = Cardinality(R) + Cardinality(A) - Cardinality(R \cap A)
  BY <1>4, FS_Union, Zenon
<1>8. Cardinality(R) \in Nat /\ Cardinality(A) \in Nat /\ Cardinality(R \cap A) = 0
  BY <1>4, <1>5, FS_CardinalityType, FS_EmptySet
<1> QED
  BY <1>6, <1>7, <1>8

LEMMA InUseWithin ==
    ASSUME Inv
    PROVE  /\ Promise!InUse(rows) = quota.reserved + quota.allocated
           /\ Promise!InUse(rows) <= quota.hard
<1>1. Promise!InUse(rows) = Cardinality(Units(rows, Reserving)) + Cardinality(Units(rows, Allocating))
  BY InUseIsCounted DEF Inv, Types
<1> QED
  BY <1>1 DEF Inv, Accounting, WithinLimit

\* The row a transaction writes at its commit becomes what it decided at its
\* first statement, which is allowed of what the row still is.
LEMMA CommitKeepsPromise ==
    ASSUME Inv, Inv', NEW c \in Clients, Commit(c)
    PROVE  Promise!Next
<1> DEFINE t == tx[c]
           old == rows[t.row]
<1>1. /\ t # NoTransaction
      /\ rows' = [rows EXCEPT ![t.row] = [status |-> t.status, amount |-> t.amount]]
      /\ quota'.hard = quota.hard
  BY DEF Commit, Inv, Types
<1>2. t \in Transaction /\ t.row \in Holders /\ Sound(t)
  BY <1>1 DEF Inv, Types, AllSound, Transaction
<1>3. Promise!Becomes(t.row, t.status, t.amount)
  <2>1. Promise!InUse(rows') <= quota'.hard
    <3>1. Promise!InUse(rows') = Cardinality(Units(rows', Reserving))
                                   + Cardinality(Units(rows', Allocating))
      BY InUseIsCounted DEF Inv, Types
    <3> QED
      BY <3>1 DEF Inv, Accounting, WithinLimit
  <2> QED
    BY <1>1, <2>1 DEF Promise!Becomes
<1>4. CASE t.row \in Reservations /\ old.status = "absent"
  <2>1. t.status = "pending" /\ t.amount \in 1..MaxAmount
    BY <1>2, <1>4 DEF Sound, Allowed, Amounts
  <2>2. Promise!Reserve(t.row, t.amount)
    BY <1>3, <1>4, <2>1 DEF Promise!Reserve
  <2> QED
    BY <1>4, <2>1, <2>2 DEF Promise!Next
<1>5. CASE t.row \in Reservations /\ old.status # "absent"
  <2>1. Allowed(old.status, t.status) /\ t.amount = old.amount
    BY <1>2, <1>5 DEF Sound
  <2>2. Promise!Settle(t.row, t.status) /\ t.status \in {"committed", "released", "expired"}
    BY <1>3, <2>1 DEF Promise!Settle, Allowed
  <2> QED
    BY <1>5, <2>2 DEF Promise!Next
<1>6. CASE t.row \in Workspaces /\ old.status = "absent"
  <2>1. t.status = "running" /\ t.amount \in 1..MaxAmount
    BY <1>2, <1>6 DEF Sound, Amounts
  <2>2. Promise!Create(t.row, t.amount)
    BY <1>3, <1>6, <2>1 DEF Promise!Create
  <2> QED
    BY <1>6, <2>1, <2>2 DEF Promise!Next
<1>7. CASE t.row \in Workspaces /\ old.status # "absent"
  <2>1. t.status \in {"running", "stopped", "terminated"} /\ t.amount = old.amount
    BY <1>2, <1>7 DEF Sound, DesiredState
  <2>2. Promise!SetState(t.row, t.status)
    BY <1>3, <1>7, <2>1 DEF Promise!SetState
  <2> QED
    BY <1>7, <2>1, <2>2 DEF Promise!Next
<1> QED
  BY <1>2, <1>4, <1>5, <1>6, <1>7 DEF Holders

\* For any number of transactions, reservations and workspaces: READ COMMITTED
\* with the locks the code takes is as good as executing the operations one at a
\* time, in the order of their commits.
THEOREM QuotaIsSerial == Spec => AllocationKept
<1>1. Init => Promise!Init
  BY DEF Init, Promise!Init, Promise!Owners, Holders
<1>2. ASSUME Inv, Inv', [Next]_vars PROVE [Promise!Next]_<<quota.hard, rows>>
  <2>1. ASSUME NEW limit \in Limits, SetQuota(limit) PROVE Promise!Next
    <3>1. /\ quota.reserved + quota.allocated <= limit
          /\ quota'.hard = limit /\ rows' = rows
      BY <1>2, <2>1 DEF SetQuota, Covers, Inv, Types
    <3>2. Promise!SetLimit(limit)
      BY <1>2, <3>1, InUseWithin DEF Promise!SetLimit
    <3> QED
      BY <3>2 DEF Promise!Next
  <2>2. ASSUME NEW c \in Clients, Commit(c) PROVE Promise!Next
    BY <1>2, <2>2, CommitKeepsPromise
  <2>3. \/ UNCHANGED <<quota, rows>>
        \/ \E limit \in Limits : SetQuota(limit)
        \/ \E c \in Clients : Commit(c)
    BY <1>2 DEF Next, vars, ReserveQuota, TransitionReservation, CreateWorkspace,
                SetDesiredState, UpdateQuota, Rollback
  <2> QED
    BY <2>1, <2>2, <2>3
<1>3. [Next]_vars /\ Inv /\ Inv' => [Promise!Next]_(Promise!vars)
  BY <1>2 DEF Promise!vars
<1> QED
  BY <1>1, <1>3, InvHolds, PTL DEF Spec, AllocationKept, Promise!Spec

-----------------------------------------------------------------------------
(* The reference API: the lock *)

\* Who believes to hold the lock of a resource does, unless it lapsed there.
SectionHeld ==
    \A p \in Requests :
        request[p].pc \in Section =>
            /\ request[p].resource \in Resources
            /\ \/ lock[request[p].resource] = p
               \/ p \in lapsed /\ request[p].resource \in overrun

\* What a handler has looked at is still so, where no lock lapsed.
StillSo(p) ==
    LET r == request[p].resource
    IN  /\ (request[p].pc \in {"expire", "check", "insert"} /\ request[p].to = NoTarget) =>
              (listing[r] = "online" \/ r \in overrun)
        /\ (request[p].pc = "save" /\ request[p].to = "offline") =>
              (ActiveOn(r) = {} \/ r \in overrun)
        /\ request[p].pc = "insert" => request[p].to = NoTarget
        /\ request[p].pc = "save" => request[p].to # NoTarget

\* An order names its resource, and is the only active one there.
OrdersPlaced ==
    \A o \in Orders : order[o].status # "none" => order[o].resource \in Resources

\* A resource is rented by one active order at most.
OneActiveOrder ==
    \A o1, o2 \in Orders :
        (order[o1].status = "active" /\ order[o2].status = "active"
           /\ order[o1].resource = order[o2].resource) => o1 = o2

Locking ==
    /\ SectionHeld
    /\ \A p \in Requests : StillSo(p)
    /\ ActiveOrderIsListed
    /\ OrdersPlaced
    /\ OneActiveOrder

-----------------------------------------------------------------------------
(* New orders *)

\* The handler will create an order, or has created one and not charged it yet.
Creating(p) == request[p].pc \in Section \cup {"booked"} /\ request[p].to = NoTarget

\* The order a handler is about to insert, or has inserted, is its own.
OrdersOwned ==
    /\ \A p \in Requests :
         Creating(p) =>
            /\ Ours(p) \in Orders \ charged
            /\ request[p].pc \notin {"release", "booked"} => order[Ours(p)].status = "none"
            /\ request[p].pc = "booked" => order[Ours(p)].status # "none"
    /\ \A p \in Requests : request[p].pc = "booked" => request[p].to = NoTarget
    /\ \A p, q \in Requests :
         (Creating(p) /\ Creating(q) /\ Ours(p) = Ours(q)) => p = q
    /\ \A o \in charged : order[o].status # "none"

-----------------------------------------------------------------------------
(* The saga *)

\* Where a handler may know of a charge it made.
Saga == {"provision", "undo", "undoFind", "undoRefund", "terminate", "return", "refund", "refused"}

\* What a handler works on was paid for.
WorkPaid(p) ==
    /\ work[p].charged => (request[p].pc \in Saga /\ Ours(p) \in charged)
    /\ request[p].pc \in {"provision", "undoRefund"} => work[p].charged
    /\ request[p].pc \in {"undo", "undoFind", "ended"} => Ours(p) \in Orders
    /\ DOMAIN work[p].docs \subseteq charged
    /\ request[p].pc \in {"return", "refund", "start", "saveStart", "saveStop"} =>
          Ours(p) \in DOMAIN work[p].docs

\* Nothing is provided or repaid that was not charged.
Paying ==
    /\ \A p \in Requests : WorkPaid(p)
    /\ \A o \in Orders : instance[o].status # "none" => o \in charged
    /\ RefundFollowsCharge
    /\ RefusedIsRepaid

\* Somebody is about to repay what a terminated instance did not use.
Repays(p, o) ==
    /\ request[p].pc \in {"return", "refund"}
    /\ Ours(p) = o
    /\ o \in DOMAIN work[p].docs
    /\ work[p].docs[o].ran = instance[o].ran
    /\ work[p].docs[o].run = Never

\* What a terminated instance did not use was repaid, or somebody is about to.
Awaited(o) ==
    instance[o].status = "terminated" =>
        \/ faults > 0
        \/ "instance" \in torn
        \/ refunded[o] > 0
        \/ instance[o].ran = Duration
        \/ \E p \in Requests : Repays(p, o)

RepaymentAwaited == \A o \in Orders : Awaited(o)

-----------------------------------------------------------------------------
\* An instance is created once, and who read one knows what it was.
Provisioned ==
    /\ \A p \in Requests : request[p].pc = "provision" => instance[Ours(p)].status = "none"
    /\ \A p, q \in Requests :
         (request[p].pc = "provision" /\ request[q].pc = "provision" /\ Ours(p) = Ours(q)) => p = q
    /\ \A p \in Requests : \A o \in DOMAIN work[p].docs : instance[o].status # "none"
    /\ \A p \in Requests :
         /\ request[p].pc \in {"start", "saveStart"} => Doc(p).status = "stopped"
         /\ request[p].pc = "saveStop" => Doc(p).status = "running"

\* The balance follows from the billing entries, which are finitely many.
Booked ==
    /\ IsFiniteSet(charged)
    /\ IsFiniteSet(Repaid)
    /\ BalanceIsLedger

\* The inductive invariant of the reference API.
LeasesInv ==
    LeasesTypeOK /\ Locking /\ OrdersOwned /\ Paying /\ Provisioned /\ RepaymentAwaited /\ Booked

\* The steps of a handler once the reservation is over.
SagaStep(p) ==
    \/ TopUp(p) \/ SaveTopUp(p)
    \/ ChargeOrder(p) \/ InsufficientBalance(p) \/ ChargeFails(p)
    \/ CreateForOrder(p) \/ CreateFails(p) \/ Undo(p) \/ UndoRefund(p) \/ Refused(p)
    \/ FindByOrder(p) \/ Sweep(p) \/ SaveTerminated(p)
    \/ ReturnTerminated(p) \/ RefundTerminated(p)
    \/ CheckOrder(p) \/ SaveStart(p) \/ SaveStop(p)
    \/ \E o \in Orders : Terminate(p, o) \/ Start(p, o) \/ Stop(p, o)

-----------------------------------------------------------------------------
\* The documents that a handler may have read.
Documents == UNION {[O -> Document] : O \in SUBSET Orders}

RequestType == [pc : Steps, resource : Resources \cup {NoResource},
                order : Orders \cup {NoOrder}, to : Listings \cup {NoTarget}]

WorkType == [charged : BOOLEAN, returns : BOOLEAN, seen : Nat, docs : Documents]

\* The documents a handler has read are those of some orders.
LEMMA DocumentsRead ==
    /\ \A O \in SUBSET Orders : \A d \in [O -> Document] : d \in Documents
    /\ \A d \in Documents :
         /\ DOMAIN d \subseteq Orders
         /\ d \in [DOMAIN d -> Document]
BY Zenon DEF Documents

\* What the constants say of the clock and of a document.
LEMMA DurationType == Duration \in Nat /\ Duration > 0 /\ Never = -1
BY BookingsAssumption DEF Never

\* What is in a document.
LEMMA DocumentFields ==
    \A doc \in Document :
        /\ doc.run \in 0..Duration \cup {Never} /\ doc.ran \in 0..Duration
        /\ doc.status \in {"none", "running", "stopped", "terminated"}
BY DEF Document

\* A document with one field changed is a document.
LEMMA SetRan ==
    \A doc \in Document : \A v \in 0..Duration :
        LET new == [doc EXCEPT !.ran = v]
        IN  new \in Document /\ new.ran = v /\ new.run = doc.run /\ new.status = doc.status
BY DEF Document

LEMMA SetRun ==
    \A doc \in Document : \A v \in 0..Duration \cup {Never} :
        LET new == [doc EXCEPT !.run = v]
        IN  new \in Document /\ new.run = v /\ new.ran = doc.ran /\ new.status = doc.status
BY DEF Document

LEMMA SetStatus ==
    \A doc \in Document : \A v \in {"none", "running", "stopped", "terminated"} :
        LET new == [doc EXCEPT !.status = v]
        IN  new \in Document /\ new.status = v /\ new.ran = doc.ran /\ new.run = doc.run
BY DEF Document

\* What becomes of a document when it is paused, saved or gets older.
LEMMA DocumentType ==
    /\ NoDocument \in Document
    /\ Running \in Document
    /\ \A doc \in Document :
         /\ Paused(doc) \in Document
         /\ Paused(doc).run = Never
         /\ Paused(doc).status = doc.status
         /\ [Paused(doc) EXCEPT !.status = "terminated"] \in Document
         /\ [doc EXCEPT !.status = "running", !.run = 0] \in Document
         /\ Older(doc) \in Document
         /\ Older(doc).status = doc.status /\ Older(doc).ran = doc.ran
    /\ \A cur, doc \in Document : \A s \in {"stopped", "terminated"} :
         Saved(cur, doc, s) \in Document
<1>1. NoDocument \in Document /\ Running \in Document
  BY DurationType DEF NoDocument, Running, Document
<1>2. ASSUME NEW doc \in Document
      PROVE  /\ Paused(doc) \in Document
             /\ Paused(doc).run = Never
             /\ Paused(doc).status = doc.status
             /\ [Paused(doc) EXCEPT !.status = "terminated"] \in Document
             /\ [doc EXCEPT !.status = "running", !.run = 0] \in Document
  <2> DEFINE sum == IF doc.run = Never THEN doc.ran ELSE AtMost(doc.ran + doc.run)
             added == [doc EXCEPT !.ran = sum]
  <2>1. sum \in 0..Duration
    BY DocumentFields, DurationType DEF AtMost
  <2>2. Paused(doc) = [added EXCEPT !.run = Never]
    BY DEF Paused
  <2> HIDE DEF sum
  <2>3. added \in Document /\ added.status = doc.status
    BY <2>1, SetRan
  <2> HIDE DEF added
  <2>4. Paused(doc) \in Document /\ Paused(doc).run = Never /\ Paused(doc).status = doc.status
    BY <2>2, <2>3, SetRun
  <2>5. [Paused(doc) EXCEPT !.status = "terminated"] \in Document
    BY <2>4, SetStatus
  <2>6. [[doc EXCEPT !.status = "running"] EXCEPT !.run = 0] \in Document
    <3> DEFINE running == [doc EXCEPT !.status = "running"]
    <3>1. running \in Document
      BY SetStatus
    <3>2. 0 \in 0..Duration
      BY DurationType
    <3> HIDE DEF running
    <3>3. [running EXCEPT !.run = 0] \in Document
      BY <3>1, <3>2, SetRun
    <3> QED
      BY <3>3 DEF running
  <2> QED
    BY <2>4, <2>5, <2>6
<1>3. ASSUME NEW doc \in Document
      PROVE  /\ Older(doc) \in Document
             /\ Older(doc).status = doc.status /\ Older(doc).ran = doc.ran
  <2>1. (IF doc.run = Never THEN Never ELSE AtMost(doc.run + 1)) \in 0..Duration \cup {Never}
    BY DocumentFields, DurationType DEF AtMost
  <2> QED
    BY <2>1, SetRun DEF Older
<1>4. ASSUME NEW cur \in Document, NEW doc \in Document, NEW s \in {"stopped", "terminated"}
      PROVE  Saved(cur, doc, s) \in Document
  BY <1>2, <1>4, DocumentFields DEF Saved, Document
<1> QED
  BY <1>1, <1>2, <1>3, <1>4

-----------------------------------------------------------------------------
(* Types *)

\* The bounds of a scenario are numbers.
LEMMA ScenarioType ==
    ASSUME scenario \in Scenarios
    PROVE  scenario.opening \in Nat /\ scenario.faults \in Nat /\ scenario.topUps \in Nat
BY LeasesAssumption, BookingsAssumption

\* Steps of a reservation keep the types of the reservation.
ReservationType ==
    /\ listing \in [Resources -> Listings]
    /\ lock \in [Resources -> Requests \cup {NoRequest}]
    /\ lapsed \subseteq Requests
    /\ overrun \subseteq Resources
    /\ faults \in 0..scenario.faults
    /\ order \in [Orders -> Order]
    /\ request \in [Requests -> RequestType]

\* The type invariant, in the parts that steps change together.
LEMMA TypeParts ==
    LeasesTypeOK <=>
      /\ ReservationType
      /\ scenario \in Scenarios
      /\ instance \in [Orders -> Document]
      /\ charged \subseteq Orders
      /\ refunded \in [Orders -> Nat]
      /\ balance \in Nat
      /\ toppedUp \in 0..scenario.topUps
      /\ work \in [Requests -> WorkType]
      /\ torn \subseteq {"account", "instance"}
BY Zenon DEF LeasesTypeOK, ReservationType, RequestType, WorkType, Documents

\* The initial documents have their types.
LEMMA TypeInit == LeasesInit => LeasesTypeOK
<1> SUFFICES ASSUME LeasesInit PROVE LeasesTypeOK
  OBVIOUS
<1>1. NoWork \in WorkType
  <2>1. [o \in {} |-> NoDocument] \in [{} -> Document]
    OBVIOUS
  <2>2. {} \in SUBSET Orders
    OBVIOUS
  <2> QED
    BY <2>1, <2>2, DocumentsRead DEF NoWork, WorkType
<1>2. work \in [Requests -> WorkType]
  BY <1>1 DEF LeasesInit
<1>3. Unborn \in Order /\ Idle \in RequestType
  BY DurationType DEF Unborn, Order, Idle, RequestType, Steps
<1>4. order \in [Orders -> Order] /\ request \in [Requests -> RequestType]
  BY <1>3 DEF LeasesInit, BookingsInit
<1>5. scenario \in Scenarios /\ scenario.opening \in Nat /\ scenario.faults \in Nat /\ scenario.topUps \in Nat
  BY LeasesAssumption, BookingsAssumption DEF LeasesInit
<1>6. work \in [Requests -> WorkType]
  BY <1>2
<1>7. ReservationType
  BY <1>4, <1>5 DEF ReservationType, LeasesInit, BookingsInit, Listings
<1>8. instance \in [Orders -> Document]
  BY DocumentType DEF LeasesInit
<1>9. balance \in Nat /\ toppedUp \in 0..scenario.topUps
  BY <1>5 DEF LeasesInit
<1>10. charged \subseteq Orders /\ torn \subseteq {"account", "instance"} /\ refunded \in [Orders -> Nat]
  BY DEF LeasesInit
<1> QED
  BY <1>5, <1>6, <1>7, <1>8, <1>9, <1>10, TypeParts

\* An order with another status, or with less left, is an order.
LEMMA OrderType ==
    ASSUME NEW ord \in Order
    PROVE  /\ \A s \in {"none", "active"} \cup Terminal : [ord EXCEPT !.status = s] \in Order
           /\ [ord EXCEPT !.left = IF @ = 0 THEN 0 ELSE @ - 1] \in Order
BY DurationType DEF Order

\* Reservations keep the types: what is inserted or saved was checked before.
LEMMA TypeReservation ==
    ASSUME LeasesTypeOK, \A p \in Requests : StillSo(p),
           Reservation \/ Expiry \/ \E p \in Requests : Booking(p)
    PROVE  LeasesTypeOK'
<1>1. /\ ReservationType
      /\ UNCHANGED <<scenario, instance, wallet, torn, work>>
  BY TypeParts DEF Reservation, Expiry, Booking
<1> SUFFICES ReservationType'
  BY <1>1, TypeParts DEF LeasesTypeOK, ReservationType, RequestType, WorkType, Documents, wallet
<1> USE DEF ReservationType
<1>2. \A pc \in Steps : \A p \in Requests : Goto(p, pc) => request' \in [Requests -> RequestType]
  BY <1>1 DEF Goto, RequestType
<1>3. Section \subseteq Steps /\ {"booked", "answer", "ended", "idle"} \subseteq Steps
  BY DEF Steps
<1>4. Idle \in RequestType
  BY <1>3 DEF Idle, RequestType
<1>5. Terminal \subseteq {"none", "active"} \cup Terminal
  OBVIOUS
<1>6. ASSUME NEW S, Expire(S) PROVE order' \in [Orders -> Order]
  <2>1. \A o \in Orders : [order[o] EXCEPT !.status = "expired"] \in Order
    BY <1>1, OrderType DEF Terminal
  <2> QED
    BY <1>1, <1>6, <2>1 DEF Expire
<1>7. ASSUME NEW p \in Requests, NEW r \in Resources, NEW o \in Orders, Book(p, r, o)
      PROVE  ReservationType'
  BY <1>1, <1>3, <1>7 DEF Book, Acquire, RequestType, Section
<1>8. ASSUME NEW p \in Requests, NEW r \in Resources, NEW to \in Targets, SetListingStatus(p, r, to)
      PROVE  ReservationType'
  BY <1>1, <1>3, <1>8, BookingsAssumption DEF SetListingStatus, Acquire, RequestType, Section
<1>9. ASSUME NEW p \in Requests, NEW o \in Orders, NEW s \in Terminal, EndOrder(p, o, s)
      PROVE  ReservationType'
  <2>1. order' \in [Orders -> Order]
    <3>1. [order[o] EXCEPT !.status = s] \in Order
      BY <1>1, <1>5, OrderType
    <3> QED
      BY <1>1, <1>9, <3>1 DEF EndOrder, Becomes
  <2>2. request' \in [Requests -> RequestType]
    BY <1>1, <1>3, <1>9 DEF EndOrder, Idle, RequestType
  <2> QED
    BY <1>1, <1>9, <2>1, <2>2 DEF EndOrder
<1>10. ASSUME NEW p \in Requests, ReleaseFails(p), faults < scenario.faults
      PROVE  ReservationType'
  <2>1. \E pc \in {"booked", "answer"} : Goto(p, pc)
    BY <1>10 DEF ReleaseFails, After
  <2>2. scenario' = scenario /\ scenario.faults \in Nat
    BY <1>1, ScenarioType DEF LeasesTypeOK
  <2> QED
    BY <1>1, <1>2, <1>3, <1>10, <2>1, <2>2 DEF ReleaseFails
<1>11. ASSUME NEW r \in Resources, Lapse(r)
      PROVE  ReservationType'
  BY <1>1, <1>11 DEF Lapse
<1>12. CASE ExpireDueOrders
  BY <1>1, <1>6, <1>12 DEF ExpireDueOrders
<1>13. ASSUME NEW p \in Requests, Find(p) \/ CheckActive(p)
       PROVE  ReservationType'
  <2>1. \E pc \in Section : Goto(p, pc)
    BY <1>13 DEF Find, CheckActive, Section
  <2>2. UNCHANGED <<listing, lock, order, lapsed, overrun, faults>>
    BY <1>13 DEF Find, CheckActive
  <2> QED
    BY <1>1, <1>2, <1>3, <2>1, <2>2
<1>14. ASSUME NEW p \in Requests, ExpireDue(p)
       PROVE  ReservationType'
  BY <1>1, <1>2, <1>3, <1>6, <1>14 DEF ExpireDue, Section
<1>15. ASSUME NEW p \in Requests, Insert(p)
       PROVE  ReservationType'
  <2>1. [status |-> "active", resource |-> request[p].resource, left |-> Duration] \in Order
    BY <1>1, DurationType DEF Order, RequestType
  <2>2. order' \in [Orders -> Order]
    BY <1>1, <1>15, <2>1 DEF Insert
  <2> QED
    BY <1>1, <1>2, <1>3, <1>15, <2>2 DEF Insert, Section
<1>16. ASSUME NEW p \in Requests, SaveListing(p)
       PROVE  ReservationType'
  <2>1. request[p].to \in Listings
    BY <1>1, <1>16 DEF SaveListing, StillSo, RequestType
  <2> QED
    BY <1>1, <1>2, <1>3, <1>16, <2>1 DEF SaveListing, Section
<1>17. ASSUME NEW p \in Requests, Release(p)
       PROVE  ReservationType'
  <2>1. \E pc \in {"booked", "answer"} : Goto(p, pc)
    BY <1>17 DEF Release, After
  <2> QED
    BY <1>1, <1>2, <1>3, <1>17, <2>1 DEF Release
<1>18. ASSUME NEW p \in Requests, Answer(p)
       PROVE  ReservationType'
  BY <1>1, <1>4, <1>18 DEF Answer
<1>19. ASSUME NEW p \in Requests, Booking(p)
       PROVE  ReservationType'
  BY <1>13, <1>14, <1>15, <1>16, <1>17, <1>18, <1>19 DEF Booking, InTheSection
<1>20. CASE Reservation
  BY <1>7, <1>8, <1>9, <1>10, <1>11, <1>20 DEF Reservation, ReturnOrder, CancelOrder, Terminal, Handlers
<1> QED
  BY <1>12, <1>19, <1>20 DEF Expiry

\* What the steps of the saga write.
LEMMA WorkTypes ==
    ASSUME LeasesTypeOK, NEW p \in Requests
    PROVE  /\ NoWork \in WorkType
           /\ Idle \in RequestType
           /\ \A pc \in Steps : [request[p] EXCEPT !.pc = pc] \in RequestType
           /\ \A pc \in Steps : \A o \in Orders :
                 [request[p] EXCEPT !.order = o, !.pc = pc] \in RequestType
           /\ \A O \in SUBSET Orders : \A b \in BOOLEAN :
                 [work[p] EXCEPT !.docs = [o \in O |-> instance[o]], !.returns = b] \in WorkType
           /\ \A O \in SUBSET (DOMAIN work[p].docs) :
                 [work[p] EXCEPT !.docs = Restrict(@, O)] \in WorkType
           /\ \A o \in DOMAIN work[p].docs : \A doc \in Document :
                 [work[p] EXCEPT !.docs[o] = doc] \in WorkType
           /\ DOMAIN work[p].docs \subseteq Orders
           /\ \A o \in DOMAIN work[p].docs : work[p].docs[o] \in Document
<1>1. /\ request[p] \in RequestType /\ work[p] \in WorkType
      /\ instance \in [Orders -> Document]
  BY TypeParts DEF ReservationType
<1>2. NoWork \in WorkType
  <2>1. [o \in {} |-> NoDocument] \in [{} -> Document]
    OBVIOUS
  <2>2. {} \in SUBSET Orders
    OBVIOUS
  <2> QED
    BY <2>1, <2>2, DocumentsRead DEF NoWork, WorkType
<1>3. Idle \in RequestType
  BY DEF Idle, RequestType, Steps
<1>4. /\ \A pc \in Steps : [request[p] EXCEPT !.pc = pc] \in RequestType
      /\ \A pc \in Steps : \A o \in Orders :
            [request[p] EXCEPT !.order = o, !.pc = pc] \in RequestType
  BY <1>1 DEF RequestType
<1>5. work[p].docs \in Documents
  BY <1>1 DEF WorkType
<1>6. /\ DOMAIN work[p].docs \subseteq Orders
      /\ work[p].docs \in [DOMAIN work[p].docs -> Document]
  BY <1>5, DocumentsRead
<1>7. ASSUME NEW d \in Documents
      PROVE  [work[p] EXCEPT !.docs = d] \in WorkType
  BY <1>1, <1>7 DEF WorkType
<1>8. ASSUME NEW O \in SUBSET Orders, NEW b \in BOOLEAN
      PROVE  [work[p] EXCEPT !.docs = [o \in O |-> instance[o]], !.returns = b] \in WorkType
  <2>1. [o \in O |-> instance[o]] \in Documents
    <3>1. [o \in O |-> instance[o]] \in [O -> Document]
      BY <1>1
    <3> QED
      BY <3>1, DocumentsRead
  <2> QED
    BY <1>1, <2>1 DEF WorkType
<1>9. ASSUME NEW O \in SUBSET (DOMAIN work[p].docs)
      PROVE  [work[p] EXCEPT !.docs = Restrict(@, O)] \in WorkType
  <2>1. Restrict(work[p].docs, O) \in [O -> Document] /\ O \in SUBSET Orders
    BY <1>6 DEF Restrict
  <2>2. Restrict(work[p].docs, O) \in Documents
    BY <2>1, DocumentsRead
  <2> QED
    BY <1>7, <2>2
<1>10. ASSUME NEW o \in DOMAIN work[p].docs, NEW doc \in Document
       PROVE  [work[p] EXCEPT !.docs[o] = doc] \in WorkType
  <2>1. [work[p].docs EXCEPT ![o] = doc] \in [DOMAIN work[p].docs -> Document]
    BY <1>6
  <2>2. [work[p].docs EXCEPT ![o] = doc] \in Documents
    BY <1>6, <2>1, DocumentsRead
  <2> QED
    BY <1>7, <2>2
<1>11. \A o \in DOMAIN work[p].docs : work[p].docs[o] \in Document
  BY <1>6
<1> QED
  BY <1>2, <1>3, <1>4, <1>6, <1>8, <1>9, <1>10, <1>11

\* The pieces that the steps of the saga are made of keep the types.
LEMMA TypePieces ==
    ASSUME LeasesTypeOK, NEW p \in Requests, scenario' = scenario
    PROVE  /\ \A pc \in Steps : Goto(p, pc) => request' \in [Requests -> RequestType]
           /\ UNCHANGED work => work' \in [Requests -> WorkType]
           /\ Finish(p) => (request' \in [Requests -> RequestType] /\ work' \in [Requests -> WorkType])
           /\ (Fails \/ UNCHANGED faults) => faults' \in 0..scenario'.faults
           /\ \A o \in Orders : Charge(o) =>
                /\ charged' \subseteq Orders /\ refunded' \in [Orders -> Nat]
                /\ balance' \in Nat /\ toppedUp' \in 0..scenario'.topUps
           /\ \A o \in Orders : \A a \in Int : RefundUnused(o, a) =>
                /\ charged' \subseteq Orders /\ refunded' \in [Orders -> Nat]
                /\ balance' \in Nat /\ toppedUp' \in 0..scenario'.topUps
           /\ UNCHANGED wallet =>
                /\ charged' \subseteq Orders /\ refunded' \in [Orders -> Nat]
                /\ balance' \in Nat /\ toppedUp' \in 0..scenario'.topUps
           /\ \A o \in Orders : \A s \in Terminal :
                Becomes(o, s) => order' \in [Orders -> Order]
           /\ \A o \in Orders : \A doc :
                Overwrites(o, doc) => torn' \subseteq {"account", "instance"}
<1>1. /\ ReservationType /\ work \in [Requests -> WorkType] /\ scenario \in Scenarios
      /\ charged \subseteq Orders /\ refunded \in [Orders -> Nat] /\ balance \in Nat
      /\ toppedUp \in 0..scenario.topUps /\ torn \subseteq {"account", "instance"}
  BY TypeParts
<1>2. /\ request \in [Requests -> RequestType] /\ order \in [Orders -> Order]
      /\ faults \in 0..scenario.faults
  BY <1>1 DEF ReservationType
<1>3. ASSUME NEW pc \in Steps, Goto(p, pc)
      PROVE  request' \in [Requests -> RequestType]
  <2>1. [request[p] EXCEPT !.pc = pc] \in RequestType
    BY WorkTypes
  <2> QED
    BY <1>2, <1>3, <2>1 DEF Goto
<1>4. Finish(p) => (request' \in [Requests -> RequestType] /\ work' \in [Requests -> WorkType])
  BY <1>1, <1>2, WorkTypes DEF Finish
<1>5. (Fails \/ UNCHANGED faults) => faults' \in 0..scenario'.faults
  BY <1>1, <1>2, ScenarioType DEF Fails
<1>6. ASSUME NEW o \in Orders, Charge(o)
      PROVE  /\ charged' \subseteq Orders /\ refunded' \in [Orders -> Nat]
             /\ balance' \in Nat /\ toppedUp' \in 0..scenario'.topUps
  BY <1>1, <1>6, DurationType DEF Charge, Price
<1>7. UNCHANGED wallet =>
        /\ charged' \subseteq Orders /\ refunded' \in [Orders -> Nat]
        /\ balance' \in Nat /\ toppedUp' \in 0..scenario'.topUps
  BY <1>1 DEF wallet
<1>8. ASSUME NEW o \in Orders, NEW a \in Int, RefundUnused(o, a)
      PROVE  /\ charged' \subseteq Orders /\ refunded' \in [Orders -> Nat]
             /\ balance' \in Nat /\ toppedUp' \in 0..scenario'.topUps
  <2>1. CASE a > 0 /\ refunded[o] = 0
    BY <1>1, <1>8, <2>1 DEF RefundUnused
  <2>2. CASE ~(a > 0 /\ refunded[o] = 0)
    BY <1>7, <1>8, <2>2 DEF RefundUnused
  <2> QED
    BY <2>1, <2>2
<1>9. ASSUME NEW o \in Orders, NEW s \in Terminal, Becomes(o, s)
      PROVE  order' \in [Orders -> Order]
  <2>1. [order[o] EXCEPT !.status = s] \in Order
    <3>1. s \in {"none", "active"} \cup Terminal
      OBVIOUS
    <3> QED
      BY <1>2, <3>1, OrderType
  <2> QED
    BY <1>2, <1>9, <2>1 DEF Becomes
<1>10. ASSUME NEW o \in Orders, NEW doc, Overwrites(o, doc)
       PROVE  torn' \subseteq {"account", "instance"}
  BY <1>1, <1>10 DEF Overwrites
<1>11. UNCHANGED work => work' \in [Requests -> WorkType]
  BY <1>1
<1> QED
  BY <1>3, <1>4, <1>5, <1>6, <1>7, <1>8, <1>9, <1>10, <1>11

\* The new values that steps of the saga compute have their types.
StepsTyped ==
    /\ request' \in [Requests -> RequestType]
    /\ work' \in [Requests -> WorkType]
    /\ faults' \in 0..scenario'.faults
    /\ order' \in [Orders -> Order]
    /\ instance' \in [Orders -> Document]
    /\ charged' \subseteq Orders /\ refunded' \in [Orders -> Nat]
    /\ balance' \in Nat /\ toppedUp' \in 0..scenario'.topUps
    /\ torn' \subseteq {"account", "instance"}

\* The types that a step kept make up the type invariant.
LEMMA TypeAdds ==
    ASSUME LeasesTypeOK, UNCHANGED lockState, StepsTyped
    PROVE  LeasesTypeOK'
BY TypeParts DEF LeasesTypeOK, ReservationType, StepsTyped, lockState, RequestType, WorkType, Documents

\* The handlers of the saga work on orders, and on documents they have read.
LEMMA WorkedOn ==
    ASSUME LeasesTypeOK, OrdersOwned, Paying, NEW p \in Requests
    PROVE  /\ request[p].pc \in {"booked", "provision", "undo", "undoFind", "undoRefund", "ended",
                                 "return", "refund", "start", "saveStart", "saveStop"} =>
                 Ours(p) \in Orders
           /\ request[p].pc \in {"return", "refund", "start", "saveStart", "saveStop"} =>
                 (Ours(p) \in DOMAIN work[p].docs /\ Doc(p) \in Document)
<1>1. WorkPaid(p) /\ charged \subseteq Orders
  BY TypeParts DEF Paying
<1>2. /\ DOMAIN work[p].docs \subseteq Orders
      /\ \A o \in DOMAIN work[p].docs : work[p].docs[o] \in Document
  BY WorkTypes
<1>3. request[p].pc = "booked" => Ours(p) \in Orders
  BY DEF OrdersOwned, Creating
<1> QED
  BY <1>1, <1>2, <1>3 DEF WorkPaid, Doc

\* What is refunded is a number.
LEMMA UnusedType ==
    \A doc \in Document : Unused(doc) \in Int /\ Unused(doc) = Duration - Paused(doc).ran
                             /\ Unused(doc) >= 0 /\ Unused(doc) <= Price
<1> SUFFICES ASSUME NEW doc \in Document
             PROVE  Unused(doc) \in Int /\ Unused(doc) = Duration - Paused(doc).ran
                      /\ Unused(doc) >= 0 /\ Unused(doc) <= Price
  OBVIOUS
<1>1. Paused(doc).ran \in 0..Duration
  BY DocumentType, DocumentFields
<1> QED
  BY <1>1, DurationType DEF Unused, Price

\* The steps of the saga keep the types.
LEMMA TypeSaga ==
    ASSUME LeasesTypeOK, OrdersOwned, Paying, NEW p \in Requests,
           SagaStep(p)
    PROVE  LeasesTypeOK'
<1> USE DEF SagaStep
<1>1. UNCHANGED lockState
  BY DEF TopUp, SaveTopUp, ChargeOrder, InsufficientBalance, ChargeFails, CreateForOrder,
         CreateFails, Undo, UndoRefund, Refused, FindByOrder, Sweep, SaveTerminated,
         ReturnTerminated, RefundTerminated, CheckOrder, SaveStart, SaveStop, Terminate, Start, Stop
<1>2. scenario' = scenario
  BY <1>1 DEF lockState
<1> SUFFICES StepsTyped
  BY <1>1, TypeAdds
<1>3. /\ request \in [Requests -> RequestType] /\ order \in [Orders -> Order]
      /\ faults \in 0..scenario.faults
      /\ work \in [Requests -> WorkType] /\ instance \in [Orders -> Document]
      /\ charged \subseteq Orders /\ refunded \in [Orders -> Nat] /\ balance \in Nat
      /\ toppedUp \in 0..scenario.topUps /\ torn \subseteq {"account", "instance"}
  BY TypeParts DEF ReservationType
<1>4. /\ Section \subseteq Steps
      /\ {"idle", "answer", "booked", "provision", "undo", "undoFind",
          "undoRefund", "refused", "ended", "terminate", "return", "refund",
          "start", "saveStart", "saveStop", "topUp"} \subseteq Steps
  BY DEF Steps
<1>5. \A o \in Orders : \A doc \in Document :
        instance' = [instance EXCEPT ![o] = doc] => instance' \in [Orders -> Document]
  BY <1>3
<1>6. \A w \in WorkType : work' = [work EXCEPT ![p] = w] => work' \in [Requests -> WorkType]
  BY <1>3
<1>7. \A r \in RequestType : request' = [request EXCEPT ![p] = r] => request' \in [Requests -> RequestType]
  BY <1>3
<1>27. \A pc \in Steps : [request[p] EXCEPT !.pc = pc] \in RequestType
  BY WorkTypes
<1>28. \A pc \in Steps : \A o \in Orders : [request[p] EXCEPT !.order = o, !.pc = pc] \in RequestType
  BY WorkTypes
<1>29. \A O \in SUBSET Orders : \A b \in BOOLEAN :
         [work[p] EXCEPT !.docs = [o \in O |-> instance[o]], !.returns = b] \in WorkType
  BY WorkTypes
<1>8. CASE TopUp(p)
  <2>1. [work[p] EXCEPT !.seen = balance] \in WorkType
    BY <1>3 DEF WorkType
  <2> QED
    BY <1>2, <1>3, <1>4, <1>6, <1>8, <2>1, TypePieces DEF TopUp, StepsTyped
<1>9. CASE SaveTopUp(p)
  <2>1. work[p].seen \in Nat
    BY <1>3 DEF WorkType
  <2>2. balance' \in Nat /\ toppedUp' \in 0..scenario'.topUps
    BY <1>2, <1>3, <1>9, <2>1, LeasesAssumption, ScenarioType DEF SaveTopUp, LeasesTypeOK
  <2>3. torn' \subseteq {"account", "instance"}
    BY <1>3, <1>9 DEF SaveTopUp
  <2> QED
    BY <1>2, <1>3, <1>9, <2>2, <2>3, TypePieces DEF SaveTopUp, StepsTyped
<1>10. CASE ChargeOrder(p)
  <2>1. [work[p] EXCEPT !.charged = TRUE] \in WorkType
    BY <1>3 DEF WorkType
  <2> QED
    BY <1>2, <1>3, <1>4, <1>6, <1>10, <2>1, WorkedOn, TypePieces DEF ChargeOrder, StepsTyped
<1>11. CASE InsufficientBalance(p)
  BY <1>2, <1>3, <1>4, <1>11, TypePieces DEF InsufficientBalance, Move, StepsTyped
<1>12. CASE ChargeFails(p)
  BY <1>2, <1>3, <1>4, <1>12, WorkedOn, TypePieces DEF ChargeFails, Move, StepsTyped
<1>13. CASE CreateForOrder(p)
  BY <1>2, <1>3, <1>5, <1>13, WorkedOn, DocumentType, TypePieces DEF CreateForOrder, StepsTyped
<1>14. CASE CreateFails(p)
  BY <1>2, <1>3, <1>4, <1>5, <1>14, WorkedOn, DocumentType, TypePieces DEF CreateFails, Move, StepsTyped
<1>15. CASE Undo(p)
  <2>1. order' \in [Orders -> Order]
    BY <1>2, <1>3, <1>15, WorkedOn, TypePieces DEF Undo, Terminal
  <2>2. /\ request' \in [Requests -> RequestType] /\ work' \in [Requests -> WorkType]
    BY <1>2, <1>4, <1>15, TypePieces DEF Undo, Move
  <2> QED
    BY <1>2, <1>3, <1>15, <2>1, <2>2, TypePieces DEF Undo, StepsTyped
<1>16. CASE UndoRefund(p)
  BY <1>2, <1>3, <1>4, <1>16, WorkedOn, DurationType, TypePieces DEF UndoRefund, Price, Move, StepsTyped
<1>17. CASE Refused(p)
  BY <1>2, <1>3, <1>17, TypePieces DEF Refused, StepsTyped
<1>18. CASE FindByOrder(p)
  <2>1. request' \in [Requests -> RequestType]
    BY <1>2, <1>4, <1>18, TypePieces DEF FindByOrder, Move
  <2>2. ASSUME Reads(p, {Ours(p)}, FALSE)
        PROVE  work' \in [Requests -> WorkType]
    BY <1>6, <1>18, <2>2, WorkedOn, WorkTypes DEF Reads, FindByOrder
  <2>3. work' \in [Requests -> WorkType]
    BY <1>2, <1>18, <2>2, TypePieces DEF FindByOrder, Move
  <2> QED
    BY <1>2, <1>3, <1>18, <2>1, <2>3, TypePieces DEF FindByOrder, StepsTyped
<1>19. CASE Sweep(p)
  <2>1. Expired \in SUBSET Orders
    BY DEF Expired
  <2>2. work' \in [Requests -> WorkType]
    BY <1>6, <1>19, <2>1, WorkTypes DEF Sweep, Reads
  <2> QED
    BY <1>2, <1>3, <1>4, <1>19, <2>2, TypePieces DEF Sweep, StepsTyped
<1>20. CASE SaveTerminated(p)
  <2>1. PICK o \in DOMAIN work[p].docs : SaveTerminated(p)!2!(o)
    BY <1>20 DEF SaveTerminated
  <2>2. o \in Orders /\ work[p].docs[o] \in Document
    BY WorkTypes
  <2>3. work' \in [Requests -> WorkType]
    BY <1>6, <2>1, <2>2, WorkTypes, DocumentType
  <2>4. request' \in [Requests -> RequestType]
    <3>1. \E pc \in Steps : request' = [request EXCEPT ![p] = [request[p] EXCEPT !.order = o, !.pc = pc]]
      BY <1>3, <1>4, <2>1
    <3> QED
      BY <1>7, <1>28, <2>2, <3>1
  <2>5. Saved(instance[o], work[p].docs[o], "terminated") \in Document
    BY <1>3, <2>2, DocumentType
  <2>6. instance' \in [Orders -> Document]
    BY <1>3, <1>5, <2>1, <2>2, <2>5
  <2>7. torn' \subseteq {"account", "instance"}
    BY <1>2, <1>3, <2>1, <2>2, TypePieces
  <2> QED
    BY <1>2, <1>3, <1>20, <2>3, <2>4, <2>6, <2>7, TypePieces DEF SaveTerminated, StepsTyped
<1>21. CASE ReturnTerminated(p)
  <2>1. order' \in [Orders -> Order]
    BY <1>2, <1>3, <1>21, WorkedOn, TypePieces DEF ReturnTerminated, Terminal
  <2> QED
    BY <1>2, <1>3, <1>4, <1>21, <2>1, TypePieces DEF ReturnTerminated, Move, StepsTyped
<1>22. CASE RefundTerminated(p)
  <2> DEFINE rest == DOMAIN work[p].docs \ {Ours(p)}
  <2>1. request' \in [Requests -> RequestType]
    BY <1>2, <1>4, <1>22, TypePieces DEF RefundTerminated, Move
  <2>2. [work[p] EXCEPT !.docs = Restrict(@, rest)] \in WorkType
    BY WorkTypes
  <2>3. work' \in [Requests -> WorkType]
    BY <1>2, <1>6, <1>22, <2>2, TypePieces DEF RefundTerminated, Move
  <2>4. Unused(Doc(p)) \in Int /\ Ours(p) \in Orders
    BY <1>22, WorkedOn, UnusedType DEF RefundTerminated
  <2> QED
    BY <1>2, <1>3, <1>22, <2>1, <2>3, <2>4, TypePieces DEF RefundTerminated, StepsTyped
<1>23. CASE CheckOrder(p)
  <2>1. /\ request' \in [Requests -> RequestType] /\ work' \in [Requests -> WorkType]
    BY <1>2, <1>4, <1>23, TypePieces DEF CheckOrder, Move
  <2> QED
    BY <1>2, <1>3, <1>23, <2>1, TypePieces DEF CheckOrder, StepsTyped
<1>24. CASE SaveStart(p)
  <2>1. Ours(p) \in Orders
    BY <1>24, WorkedOn DEF SaveStart
  <2>2. [instance[Ours(p)] EXCEPT !.status = "running", !.run = 0] \in Document
    BY <1>3, <2>1, DocumentType
  <2>3. instance' \in [Orders -> Document]
    BY <1>3, <1>24, <2>1, <2>2 DEF SaveStart
  <2> QED
    BY <1>2, <1>3, <1>24, <2>1, <2>3, TypePieces DEF SaveStart, StepsTyped
<1>25. CASE SaveStop(p)
  <2>1. Ours(p) \in Orders /\ Doc(p) \in Document
    BY <1>25, WorkedOn DEF SaveStop
  <2>2. Saved(instance[Ours(p)], Doc(p), "stopped") \in Document
    BY <1>3, <2>1, DocumentType
  <2>3. instance' \in [Orders -> Document]
    BY <1>3, <1>25, <2>1, <2>2 DEF SaveStop
  <2> QED
    BY <1>2, <1>3, <1>25, <2>1, <2>3, TypePieces DEF SaveStop, StepsTyped
<1>26. ASSUME NEW o \in Orders, Terminate(p, o) \/ Start(p, o) \/ Stop(p, o)
       PROVE  StepsTyped
  <2>1. \E b \in BOOLEAN : Reads(p, {o}, b)
    BY <1>26 DEF Terminate, Start, Stop
  <2>2. work' \in [Requests -> WorkType]
    <3>1. \A b \in BOOLEAN :
            [work[p] EXCEPT !.docs = [x \in {o} |-> instance[x]], !.returns = b] \in WorkType
      BY <1>29, {o} \in SUBSET Orders
    <3> QED
      BY <1>6, <2>1, <3>1 DEF Reads
  <2>3. \E pc \in Steps :
          \/ request' = [request EXCEPT ![p] = [request[p] EXCEPT !.pc = pc]]
          \/ request' = [request EXCEPT ![p] = [request[p] EXCEPT !.order = o, !.pc = pc]]
    <3>1. CASE Terminate(p, o)
      BY <1>4, <3>1 DEF Terminate
    <3>2. CASE Start(p, o)
      <4> DEFINE pc == IF order[o].left = 0 THEN "terminate" ELSE "start"
      <4>1. pc \in Steps
        BY <1>4
      <4>2. request' = [request EXCEPT ![p] = [request[p] EXCEPT !.order = o, !.pc = pc]]
        BY <1>3, <3>2 DEF Start
      <4> QED
        BY <4>1, <4>2
    <3>3. CASE Stop(p, o)
      <4>1. request' = [request EXCEPT ![p] = [request[p] EXCEPT !.order = o, !.pc = "saveStop"]]
        BY <1>3, <3>3 DEF Stop
      <4> QED
        BY <1>4, <4>1
    <3> QED
      BY <1>26, <3>1, <3>2, <3>3
  <2>4. request' \in [Requests -> RequestType]
    BY <1>7, <1>27, <1>28, <2>3
  <2> QED
    BY <1>2, <1>3, <1>26, <2>2, <2>4, TypePieces DEF Terminate, Start, Stop, StepsTyped
<1> QED
  BY <1>8, <1>9, <1>10, <1>11, <1>12, <1>13, <1>14, <1>15, <1>16, <1>17, <1>18, <1>19, <1>20,
     <1>21, <1>22, <1>23, <1>24, <1>25, <1>26

\* So do the clock and a crash.
LEMMA TypeEnvironment ==
    ASSUME LeasesTypeOK, LeasesTick \/ \E p \in Requests : Dies(p)
    PROVE  LeasesTypeOK'
<1>1. UNCHANGED lockState \/ (UNCHANGED <<scenario, listing, lock, overrun>> /\ lapsed' \subseteq lapsed)
  BY DEF LeasesTick, Dies, Crash, lockState
<1>2. /\ ReservationType
      /\ request \in [Requests -> RequestType] /\ order \in [Orders -> Order]
      /\ faults \in 0..scenario.faults
      /\ work \in [Requests -> WorkType] /\ instance \in [Orders -> Document]
      /\ charged \subseteq Orders /\ refunded \in [Orders -> Nat] /\ balance \in Nat
      /\ toppedUp \in 0..scenario.topUps /\ torn \subseteq {"account", "instance"}
  BY TypeParts DEF ReservationType
<1>3. CASE LeasesTick
  <2>1. order' \in [Orders -> Order]
    BY <1>2, <1>3, OrderType DEF LeasesTick, Elapsed
  <2>2. instance' \in [Orders -> Document]
    BY <1>2, <1>3, DocumentType DEF LeasesTick
  <2>3. UNCHANGED lockState
    BY <1>3 DEF LeasesTick
  <2> QED
    BY <1>2, <1>3, <2>1, <2>2, <2>3, TypeAdds DEF LeasesTick, StepsTyped, wallet, lockState
<1>4. ASSUME NEW p \in Requests, Dies(p)
      PROVE  LeasesTypeOK'
  <2>1. request' \in [Requests -> RequestType] /\ work' \in [Requests -> WorkType]
    BY <1>2, <1>4, WorkTypes DEF Dies, Crash
  <2>2. scenario' = scenario /\ scenario.faults \in Nat
    BY <1>4, ScenarioType DEF Dies, LeasesTypeOK
  <2>3. ReservationType'
    BY <1>2, <1>4, <2>1, <2>2 DEF Dies, Crash, ReservationType
  <2> QED
    BY <1>2, <1>4, <2>1, <2>2, <2>3, TypeParts
       DEF Dies, wallet, LeasesTypeOK, ReservationType, RequestType, WorkType, Documents
<1> QED
  BY <1>3, <1>4

-----------------------------------------------------------------------------
(* What happens outside of the sections *)

\* A handler that is not in a section, nor about to charge, moves; orders end.
Outside ==
    /\ UNCHANGED <<listing, lock, overrun>>
    /\ \A p \in Requests :
         request'[p].pc \in Section \cup {"booked"} =>
            /\ request'[p] = request[p]
            /\ p \in lapsed => p \in lapsed'
    /\ \A o \in Orders :
         /\ order'[o].resource = order[o].resource
         /\ \/ order'[o].status = order[o].status
            \/ order[o].status = "active" /\ order'[o].status \in Terminal

\* The charges a step leaves: as they were, or with one that a handler made.
Charges ==
    \/ charged' = charged
    \/ \E p \in Requests :
         /\ request[p].pc = "booked" /\ request'[p].pc \notin Section \cup {"booked"}
         /\ charged' = charged \cup {Ours(p)}

\* Steps outside of a section leave what the lock protects as it is.
LEMMA OutsideLocking ==
    ASSUME LeasesTypeOK, Locking, Outside
    PROVE  Locking'
<1>1. \A r : ActiveOn(r)' \subseteq ActiveOn(r)
  BY DEF ActiveOn, Outside, Terminal
<1>2. SectionHeld'
  BY DEF Locking, SectionHeld, Outside
<1>3. ASSUME NEW p \in Requests
      PROVE  StillSo(p)'
  <2>1. CASE request'[p].pc \in Section
    <3>1. request'[p] = request[p] /\ StillSo(p)
      BY <2>1 DEF Locking, Outside
    <3> QED
      BY <1>1, <3>1 DEF StillSo, Outside
  <2>2. CASE request'[p].pc \notin Section
    BY <2>2 DEF StillSo, Section
  <2> QED
    BY <2>1, <2>2
<1>4. ActiveOrderIsListed'
  BY DEF Locking, ActiveOrderIsListed, Outside, Terminal
<1>5. OrdersPlaced'
  BY DEF Locking, OrdersPlaced, Outside
<1>6. OneActiveOrder'
  BY DEF Locking, OneActiveOrder, Outside, Terminal
<1> QED
  BY <1>2, <1>3, <1>4, <1>5, <1>6 DEF Locking

\* They leave the orders of the handlers alone, too.
LEMMA OutsideOrders ==
    ASSUME LeasesTypeOK, OrdersOwned, Outside, Charges
    PROVE  OrdersOwned'
<1>1. \A p \in Requests : Creating(p)' => (Creating(p) /\ request'[p] = request[p])
  BY DEF Creating, Outside
<1>2. \A o \in Orders : (order'[o].status = "none") <=> (order[o].status = "none")
  BY DEF Outside, Terminal
<1>3. ASSUME NEW p \in Requests, Creating(p)'
      PROVE  Ours(p)' \in Orders \ charged'
  <2>1. Creating(p) /\ Ours(p)' = Ours(p) /\ Ours(p) \in Orders \ charged
    BY <1>1, <1>3 DEF OrdersOwned, Ours
  <2>2. ASSUME NEW q \in Requests, request[q].pc = "booked",
               request'[q].pc \notin Section \cup {"booked"}
        PROVE  Ours(q) # Ours(p)
    BY <1>3, <2>1, <2>2 DEF OrdersOwned, Creating
  <2> QED
    BY <2>1, <2>2 DEF Charges
<1>4. ASSUME NEW p \in Requests, Creating(p)'
      PROVE  /\ request'[p].pc \notin {"release", "booked"} => order'[Ours(p)'].status = "none"
             /\ request'[p].pc = "booked" => order'[Ours(p)'].status # "none"
  BY <1>1, <1>2, <1>4 DEF OrdersOwned, Ours
<1>5. \A p, q \in Requests :
        (Creating(p)' /\ Creating(q)' /\ Ours(p)' = Ours(q)') => p = q
  BY <1>1 DEF OrdersOwned, Ours
<1>6. \A p \in Requests : request'[p].pc = "booked" => request'[p].to = NoTarget
  BY DEF OrdersOwned, Outside
<1>7. \A o \in charged' : order'[o].status # "none"
  <2>1. \A p \in Requests : request[p].pc = "booked" => (Ours(p) \in Orders /\ order[Ours(p)].status # "none")
    BY DEF OrdersOwned, Creating
  <2>2. charged \subseteq Orders
    BY DEF LeasesTypeOK
  <2> QED
    BY <1>2, <2>1, <2>2 DEF OrdersOwned, Charges
<1> QED
  BY <1>3, <1>4, <1>5, <1>6, <1>7 DEF OrdersOwned

\* One handler moves, between steps that are in no section.
LEMMA MovesOutside ==
    ASSUME LeasesTypeOK, NEW p \in Requests, NEW r,
           request' = [request EXCEPT ![p] = r],
           r.pc \notin Section \cup {"booked"},
           UNCHANGED <<listing, lock, overrun>>, lapsed \ {p} \subseteq lapsed',
           \/ UNCHANGED order
           \/ \E o \in Orders, s \in Terminal : order[o].status = "active" /\ Becomes(o, s)
    PROVE  Outside
<1>1. request \in [Requests -> RequestType] /\ order \in [Orders -> Order]
  BY TypeParts DEF ReservationType
<1>2. \A q \in Requests : q # p => request'[q] = request[q]
  BY <1>1
<1>3. request'[p] = r
  BY <1>1
<1>4. \A o \in Orders :
        /\ order'[o].resource = order[o].resource
        /\ \/ order'[o].status = order[o].status
           \/ order[o].status = "active" /\ order'[o].status \in Terminal
  <2>1. CASE UNCHANGED order
    BY <2>1
  <2>2. ASSUME NEW o \in Orders, NEW s \in Terminal, order[o].status = "active", Becomes(o, s)
        PROVE  \A u \in Orders :
                 /\ order'[u].resource = order[u].resource
                 /\ \/ order'[u].status = order[u].status
                    \/ order[u].status = "active" /\ order'[u].status \in Terminal
    BY <1>1, <2>2 DEF Becomes, Order
  <2> QED
    BY <2>1, <2>2
<1> QED
  BY <1>2, <1>3, <1>4 DEF Outside

\* The whole saga is outside of the sections.
LEMMA SagaOutside ==
    ASSUME LeasesTypeOK, NEW p \in Requests,
           SagaStep(p)
    PROVE  Outside /\ Charges
<1> USE DEF SagaStep
<1> DEFINE Beyond == Steps \ (Section \cup {"booked"})
<1>1. /\ request \in [Requests -> RequestType] /\ order \in [Orders -> Order]
  BY TypeParts DEF ReservationType
<1>2. \A pc \in {"idle", "provision", "undo", "undoFind", "undoRefund", "refused", "ended",
                "terminate", "return", "refund", "start", "saveStart", "saveStop", "topUp"} :
        pc \notin Section \cup {"booked"}
  BY DEF Section
<1>3. \A pc : [request[p] EXCEPT !.pc = pc].pc = pc
  BY <1>1 DEF RequestType
<1>4. \A pc : \A o : [request[p] EXCEPT !.order = o, !.pc = pc].pc = pc
  BY <1>1 DEF RequestType
<1>5. Idle.pc = "idle"
  BY DEF Idle
<1>6. UNCHANGED <<listing, lock, lapsed, overrun>>
  BY DEF TopUp, SaveTopUp, ChargeOrder, InsufficientBalance, ChargeFails, CreateForOrder,
         CreateFails, Undo, UndoRefund, Refused, FindByOrder, Sweep, SaveTerminated,
         ReturnTerminated, RefundTerminated, CheckOrder, SaveStart, SaveStop, Terminate, Start, Stop,
         lockState
<1>7. \/ UNCHANGED order
      \/ \E o \in Orders, s \in Terminal : order[o].status = "active" /\ Becomes(o, s)
  <2>1. CASE UNCHANGED order
    BY <2>1
  <2>2. CASE Undo(p) \/ ReturnTerminated(p)
    BY <1>1, <2>2 DEF Undo, ReturnTerminated, Terminal, Becomes
  <2> QED
    BY <2>1, <2>2 DEF TopUp, SaveTopUp, ChargeOrder, InsufficientBalance, ChargeFails, CreateForOrder,
         CreateFails, UndoRefund, Refused, FindByOrder, Sweep, SaveTerminated,
         RefundTerminated, CheckOrder, SaveStart, SaveStop, Terminate, Start, Stop
<1>8. \E r : request' = [request EXCEPT ![p] = r] /\ r.pc \notin Section \cup {"booked"}
  <2>1. ASSUME NEW pc \in {"provision", "undo", "undoFind", "undoRefund", "refused",
                          "terminate", "return", "refund", "saveStart", "topUp"},
               Goto(p, pc)
        PROVE  \E r : request' = [request EXCEPT ![p] = r] /\ r.pc \notin Section \cup {"booked"}
    <3>1. request' = [request EXCEPT ![p] = [request[p] EXCEPT !.pc = pc]]
      BY <2>1 DEF Goto
    <3>2. [request[p] EXCEPT !.pc = pc].pc \notin Section \cup {"booked"}
      BY <1>2, <1>3
    <3> QED
      BY <3>1, <3>2, Zenon
  <2>2. ASSUME Finish(p)
        PROVE  \E r : request' = [request EXCEPT ![p] = r] /\ r.pc \notin Section \cup {"booked"}
    BY <1>2, <1>5, <2>2 DEF Finish
  <2>3. CASE SaveTerminated(p) \/ \E o \in Orders : Start(p, o) \/ Stop(p, o) \/ Terminate(p, o)
    <3>1. ASSUME NEW o \in DOMAIN work[p].docs, SaveTerminated(p)!2!(o)
          PROVE  \E r : request' = [request EXCEPT ![p] = r] /\ r.pc \notin Section \cup {"booked"}
      <4> DEFINE pc == IF work[p].returns THEN "return" ELSE "refund"
      <4>1. request' = [request EXCEPT ![p] = [request[p] EXCEPT !.order = o, !.pc = pc]]
        BY <1>1, <3>1
      <4>2. [request[p] EXCEPT !.order = o, !.pc = pc].pc \notin Section \cup {"booked"}
        BY <1>2, <1>4
      <4> QED
        BY <4>1, <4>2, Zenon
    <3>2. ASSUME NEW o \in Orders, Start(p, o)
          PROVE  \E r : request' = [request EXCEPT ![p] = r] /\ r.pc \notin Section \cup {"booked"}
      <4> DEFINE pc == IF order[o].left = 0 THEN "terminate" ELSE "start"
      <4>1. request' = [request EXCEPT ![p] = [request[p] EXCEPT !.order = o, !.pc = pc]]
        BY <1>1, <3>2 DEF Start
      <4>2. [request[p] EXCEPT !.order = o, !.pc = pc].pc \notin Section \cup {"booked"}
        BY <1>2, <1>4
      <4> QED
        BY <4>1, <4>2, Zenon
    <3>3. ASSUME NEW o \in Orders, Stop(p, o)
          PROVE  \E r : request' = [request EXCEPT ![p] = r] /\ r.pc \notin Section \cup {"booked"}
      <4>1. request' = [request EXCEPT ![p] = [request[p] EXCEPT !.order = o, !.pc = "saveStop"]]
        BY <1>1, <3>3 DEF Stop
      <4>2. [request[p] EXCEPT !.order = o, !.pc = "saveStop"].pc \notin Section \cup {"booked"}
        BY <1>2, <1>4
      <4> QED
        BY <4>1, <4>2, Zenon
    <3>4. ASSUME NEW o \in Orders, Terminate(p, o)
          PROVE  \E r : request' = [request EXCEPT ![p] = r] /\ r.pc \notin Section \cup {"booked"}
      <4>1. request' = [request EXCEPT ![p] = [request[p] EXCEPT !.pc = "terminate"]]
        BY <3>4 DEF Terminate
      <4>2. [request[p] EXCEPT !.pc = "terminate"].pc \notin Section \cup {"booked"}
        BY <1>2, <1>3
      <4> QED
        BY <4>1, <4>2, Zenon
    <3> QED
      BY <2>3, <3>1, <3>2, <3>3, <3>4 DEF SaveTerminated
  <2> QED
    BY <2>1, <2>2, <2>3
       DEF TopUp, SaveTopUp, ChargeOrder, InsufficientBalance, ChargeFails, CreateForOrder,
           CreateFails, Undo, UndoRefund, Refused, FindByOrder, Sweep, ReturnTerminated,
           RefundTerminated, CheckOrder, SaveStart, SaveStop, Move
<1>9. Outside
  BY <1>6, <1>7, <1>8, MovesOutside
<1>10. Charges
  <2>1. charged' = charged \/ (request[p].pc = "booked" /\ charged' = charged \cup {Ours(p)}
                               /\ request'[p].pc \notin Section \cup {"booked"})
    <3>1. CASE ChargeOrder(p) \/ ChargeFails(p)
      <4>1. request[p].pc = "booked"
        BY <3>1 DEF ChargeOrder, ChargeFails
      <4>2. charged' = charged \/ charged' = charged \cup {Ours(p)}
        BY <3>1 DEF ChargeOrder, ChargeFails, Charge, wallet
      <4>3. request'[p].pc \notin Section \cup {"booked"}
        BY <1>1, <1>8
      <4> QED
        BY <4>1, <4>2, <4>3
    <3>2. CASE ~(ChargeOrder(p) \/ ChargeFails(p))
      BY <3>2 DEF TopUp, SaveTopUp, InsufficientBalance, CreateForOrder,
           CreateFails, Undo, UndoRefund, Refused, FindByOrder, Sweep, SaveTerminated,
           ReturnTerminated, RefundTerminated, CheckOrder, SaveStart, SaveStop,
           Terminate, Start, Stop, RefundUnused, wallet
    <3> QED
      BY <3>1, <3>2
  <2> QED
    BY <2>1 DEF Charges
<1> QED
  BY <1>9, <1>10

\* So are the ends of an order, which take no lock, the clock and a crash.
LEMMA EnvironmentOutside ==
    ASSUME LeasesTypeOK,
           \/ LeasesTick \/ ExpireDueOrders
           \/ \E p \in Requests : Dies(p) \/ Answer(p) \/ \E o \in Orders : ReturnOrder(p, o) \/ CancelOrder(p, o)
    PROVE  Outside
<1>1. /\ request \in [Requests -> RequestType] /\ order \in [Orders -> Order]
  BY TypeParts DEF ReservationType
<1>2. {"idle", "ended"} \cap (Section \cup {"booked"}) = {}
  BY DEF Section
<1>3. CASE LeasesTick
  <2>1. UNCHANGED <<listing, lock, overrun, lapsed, request>>
    BY <1>3 DEF LeasesTick, lockState
  <2>2. \A o \in Orders : order'[o].resource = order[o].resource /\ order'[o].status = order[o].status
    BY <1>1, <1>3 DEF LeasesTick, Elapsed, Order
  <2> QED
    BY <2>1, <2>2 DEF Outside
<1>4. CASE ExpireDueOrders
  BY <1>1, <1>4 DEF ExpireDueOrders, Expire, Due, Order, Outside, Terminal
<1>5. ASSUME NEW p \in Requests, Dies(p) \/ Answer(p)
      PROVE  Outside
  <2>1. request' = [request EXCEPT ![p] = Idle] /\ Idle.pc \notin Section \cup {"booked"}
    BY <1>2, <1>5 DEF Dies, Crash, Answer, Idle
  <2> QED
    BY <1>5, <2>1, MovesOutside DEF Dies, Crash, Answer
<1>6. ASSUME NEW p \in Requests, NEW o \in Orders, NEW s \in Terminal, EndOrder(p, o, s)
      PROVE  Outside
  <2> DEFINE r == [Idle EXCEPT !.pc = "ended", !.order = o]
  <2>1. request' = [request EXCEPT ![p] = r]
    BY <1>6 DEF EndOrder
  <2>2. r.pc \notin Section \cup {"booked"}
    BY <1>2 DEF Idle
  <2>3. \/ UNCHANGED order
        \/ \E u \in Orders, t \in Terminal : order[u].status = "active" /\ Becomes(u, t)
    BY <1>6 DEF EndOrder
  <2>4. UNCHANGED <<listing, lock, overrun, lapsed>>
    BY <1>6 DEF EndOrder
  <2> HIDE DEF r
  <2> QED
    BY <2>1, <2>2, <2>3, <2>4, MovesOutside
<1> QED
  BY <1>3, <1>4, <1>5, <1>6 DEF ReturnOrder, CancelOrder, Terminal

-----------------------------------------------------------------------------
(* Steps of a section *)

\* What one handler does to its own step, and to nobody else's.
LEMMA Stepping ==
    ASSUME LeasesTypeOK, NEW p \in Requests, NEW pc, Goto(p, pc)
    PROVE  /\ \A q \in Requests : q # p => request'[q] = request[q]
           /\ request'[p].pc = pc
           /\ \A q \in Requests :
                /\ request'[q].resource = request[q].resource
                /\ request'[q].order = request[q].order
                /\ request'[q].to = request[q].to
<1>1. request \in [Requests -> RequestType]
  BY TypeParts DEF ReservationType
<1> QED
  BY <1>1 DEF Goto, RequestType

\* SET NX gives the lock to one handler.
LEMMA AcquireLocking ==
    ASSUME LeasesTypeOK, Locking, NEW p \in Requests, NEW r \in Resources, NEW o, NEW to,
           Acquire(p, r, [pc |-> "find", resource |-> r, order |-> o, to |-> to])
    PROVE  Locking'
<1>1. /\ request \in [Requests -> RequestType] /\ lock \in [Resources -> Requests \cup {NoRequest}]
  BY TypeParts DEF ReservationType
<1>2. /\ request'[p] = [pc |-> "find", resource |-> r, order |-> o, to |-> to]
      /\ \A q \in Requests : q # p => request'[q] = request[q]
      /\ lock[r] = NoRequest
      /\ lock'[r] = p /\ \A x \in Resources : x # r => lock'[x] = lock[x]
      /\ UNCHANGED <<listing, order, lapsed, overrun>>
  BY <1>1 DEF Acquire
<1>3. SectionHeld'
  BY <1>2, BookingsAssumption DEF Locking, SectionHeld
<1>4. ASSUME NEW q \in Requests
      PROVE  StillSo(q)'
  BY <1>2 DEF Locking, StillSo, ActiveOn
<1> QED
  BY <1>2, <1>3, <1>4 DEF Locking, ActiveOrderIsListed, OrdersPlaced, OneActiveOrder

\* The steps of a section keep what the lock is for.
LEMMA SectionLocking ==
    ASSUME LeasesTypeOK, Locking, OrdersOwned, NEW p \in Requests, InTheSection(p)
    PROVE  Locking'
<1>1. /\ request \in [Requests -> RequestType] /\ lock \in [Resources -> Requests \cup {NoRequest}]
      /\ listing \in [Resources -> Listings] /\ order \in [Orders -> Order]
  BY TypeParts DEF ReservationType
<1> DEFINE r == request[p].resource
<1>2. request[p].pc \in Section /\ r \in Resources
  BY DEF InTheSection, Find, ExpireDue, CheckActive, Insert, SaveListing, Release, Section,
         Locking, SectionHeld
\* Of two handlers in a section of one resource, one has outlived its lock.
<1>3. \A q \in Requests : (q # p /\ request[q].pc \in Section /\ request[q].resource = r) => r \in overrun
  BY <1>2 DEF Locking, SectionHeld
<1>4. ASSUME NEW pc \in Section, Goto(p, pc), UNCHANGED <<lock, lapsed, overrun>>
      PROVE  SectionHeld'
  BY <1>4, <1>2, Stepping DEF Locking, SectionHeld
<1>5. CASE Find(p)
  <2>1. PICK pc \in {"release", "save", "expire"} :
          /\ Goto(p, pc)
          /\ request[p].to = NoTarget => (pc \in {"release", "expire"} /\ (pc = "expire" => listing[r] = "online"))
          /\ (pc = "save" => request[p].to = "online")
    <3> DEFINE to == request[p].to
    <3>1. listing[r] \in {"online", "offline"} /\ NoTarget \notin Listings
      BY <1>1, <1>2, BookingsAssumption DEF Listings
    <3>2. CASE to = NoTarget /\ listing[r] # "online"
      <4>1. Goto(p, "release")
        BY <1>5, <3>1, <3>2 DEF Find, Listings
      <4> QED
        BY <3>2, <4>1
    <3>3. CASE to = listing[r]
      <4>1. Goto(p, "release")
        BY <1>5, <3>1, <3>3 DEF Find, Listings
      <4> QED
        BY <3>1, <3>3, <4>1 DEF Listings
    <3>4. CASE to = "online" /\ listing[r] # "online"
      <4>1. Goto(p, "save")
        BY <1>5, <3>1, <3>4 DEF Find, Listings
      <4> QED
        BY <3>1, <3>4, <4>1 DEF Listings
    <3>5. CASE ~(\/ to = NoTarget /\ listing[r] # "online"
                 \/ to = listing[r]
                 \/ to = "online" /\ listing[r] # "online")
      <4>1. Goto(p, "expire")
        BY <1>5, <3>5 DEF Find
      <4> QED
        BY <3>5, <4>1
    <3> QED
      BY <3>2, <3>3, <3>4, <3>5
  <2>2. UNCHANGED <<listing, lock, order, lapsed, overrun>>
    BY <1>5 DEF Find
  <2>3. ASSUME NEW q \in Requests
        PROVE  StillSo(q)'
    BY <2>1, <2>2, <2>3, Stepping, BookingsAssumption DEF Locking, StillSo, ActiveOn, Listings
  <2> QED
    BY <1>4, <2>1, <2>2, <2>3 DEF Locking, ActiveOrderIsListed, OrdersPlaced, OneActiveOrder, Section
<1>6. CASE ExpireDue(p)
  <2>1. Goto(p, "check") /\ UNCHANGED <<listing, lock, lapsed, overrun>> /\ request[p].pc = "expire"
    BY <1>6 DEF ExpireDue
  <2>2. \A o \in Orders :
          /\ order'[o].resource = order[o].resource
          /\ \/ order'[o].status = order[o].status
             \/ order[o].status = "active" /\ order'[o].status = "expired"
    BY <1>1, <1>6 DEF ExpireDue, Expire, Due, Order
  <2>3. ASSUME NEW q \in Requests
        PROVE  StillSo(q)'
    BY <2>1, <2>2, <2>3, Stepping DEF Locking, StillSo, ActiveOn
  <2> QED
    BY <1>4, <2>1, <2>2, <2>3 DEF Locking, ActiveOrderIsListed, OrdersPlaced, OneActiveOrder, Section
<1>7. CASE CheckActive(p)
  <2>1. PICK pc \in {"release", "insert", "save"} :
          /\ Goto(p, pc)
          /\ pc # "release" => ActiveOn(r) = {}
          /\ pc = "insert" => request[p].to = NoTarget
          /\ pc = "save" => request[p].to # NoTarget
    BY <1>7 DEF CheckActive
  <2>2. UNCHANGED <<listing, lock, order, lapsed, overrun>> /\ request[p].pc = "check"
    BY <1>7 DEF CheckActive
  <2>3. ASSUME NEW q \in Requests
        PROVE  StillSo(q)'
    BY <2>1, <2>2, <2>3, Stepping DEF Locking, StillSo, ActiveOn
  <2> QED
    BY <1>4, <2>1, <2>2, <2>3 DEF Locking, ActiveOrderIsListed, OrdersPlaced, OneActiveOrder, Section
<1>8. CASE Insert(p)
  <2>1. Goto(p, "release") /\ UNCHANGED <<listing, lock, lapsed, overrun>> /\ request[p].pc = "insert"
    BY <1>8 DEF Insert
  <2>2. request[p].to = NoTarget /\ request[p].order \in Orders /\ (listing[r] = "online" \/ r \in overrun)
    BY <2>1 DEF Locking, StillSo, OrdersOwned, Creating, Section, Ours
  <2>3. CASE ActiveOn(r) = {}
    <3>1. order' = [order EXCEPT ![request[p].order] =
                      [status |-> "active", resource |-> r, left |-> Duration]]
      BY <1>8, <2>3 DEF Insert
    <3>2. /\ order'[request[p].order].status = "active" /\ order'[request[p].order].resource = r
          /\ \A o \in Orders : o # request[p].order => order'[o] = order[o]
      BY <1>1, <2>2, <3>1
    <3>3. ASSUME NEW q \in Requests
          PROVE  StillSo(q)'
      <4>1. CASE q = p
        BY <2>1, <4>1, Stepping DEF StillSo
      <4>2. CASE q # p
        <5>1. request'[q] = request[q] /\ StillSo(q)
          BY <2>1, <4>2, Stepping DEF Locking
        <5>2. (request[q].pc = "save" /\ request[q].resource = r) => r \in overrun
          BY <1>3, <4>2 DEF Section
        <5>3. request[q].resource # r => ActiveOn(request[q].resource)' \subseteq ActiveOn(request[q].resource)
          BY <2>2, <3>2, <5>1 DEF ActiveOn
        <5> QED
          BY <2>1, <5>1, <5>2, <5>3 DEF StillSo
      <4> QED
        BY <4>1, <4>2
    <3>4. ActiveOrderIsListed' /\ OrdersPlaced'
      BY <1>2, <2>1, <2>2, <3>2 DEF Locking, ActiveOrderIsListed, OrdersPlaced
    <3>5. OneActiveOrder'
      BY <2>2, <2>3, <3>2 DEF Locking, OneActiveOrder, ActiveOn
    <3> QED
      BY <1>4, <2>1, <3>3, <3>4, <3>5 DEF Locking, Section
  <2>4. CASE ActiveOn(r) # {}
    <3>1. UNCHANGED order
      BY <1>8, <2>4 DEF Insert
    <3>2. ASSUME NEW q \in Requests
          PROVE  StillSo(q)'
      BY <2>1, <3>1, Stepping DEF Locking, StillSo, ActiveOn
    <3> QED
      BY <1>4, <2>1, <3>1, <3>2 DEF Locking, ActiveOrderIsListed, OrdersPlaced, OneActiveOrder, Section
  <2> QED
    BY <2>3, <2>4
<1>9. CASE SaveListing(p)
  <2>1. /\ Goto(p, "release") /\ UNCHANGED <<lock, order, lapsed, overrun>> /\ request[p].pc = "save"
        /\ listing' = [listing EXCEPT ![r] = request[p].to]
    BY <1>9 DEF SaveListing
  <2>2. request[p].to \in Listings /\ (request[p].to = "offline" => (ActiveOn(r) = {} \/ r \in overrun))
    BY <1>1, <2>1 DEF Locking, StillSo, RequestType
  <2>3. listing'[r] = request[p].to /\ \A x \in Resources : x # r => listing'[x] = listing[x]
    BY <1>1, <1>2, <2>1
  <2>4. ASSUME NEW q \in Requests
        PROVE  StillSo(q)'
    <3>1. CASE q = p
      BY <2>1, <3>1, Stepping DEF StillSo
    <3>2. CASE q # p
      <4>1. request'[q] = request[q] /\ StillSo(q)
        BY <2>1, <3>2, Stepping DEF Locking
      <4>2. request[q].pc \in {"expire", "check", "insert"} =>
              (request[q].resource \in Resources /\ (request[q].resource = r => r \in overrun))
        BY <1>3, <3>2 DEF Section, Locking, SectionHeld
      <4> QED
        BY <2>1, <2>3, <4>1, <4>2 DEF StillSo, ActiveOn
    <3> QED
      BY <3>1, <3>2
  <2>5. ActiveOrderIsListed'
    BY <2>1, <2>2, <2>3 DEF Locking, ActiveOrderIsListed, OrdersPlaced, ActiveOn, Listings
  <2> QED
    BY <1>4, <2>1, <2>4, <2>5 DEF Locking, OrdersPlaced, OneActiveOrder, Section
<1>10. CASE Release(p)
  <2>1. /\ Goto(p, After(p)) /\ UNCHANGED <<listing, order, overrun>> /\ lapsed' = lapsed \ {p}
        /\ lock' = [lock EXCEPT ![r] = IF @ = p THEN NoRequest ELSE @]
    BY <1>10 DEF Release
  <2>2. After(p) \in {"booked", "answer"}
    BY DEF After
  <2>3. \A q \in Requests : q # p => request'[q] = request[q]
    BY <2>1, Stepping
  <2>4. request'[p].pc = After(p)
    BY <2>1, Stepping
  <2>5. SectionHeld'
    BY <1>1, <1>2, <2>1, <2>2, <2>3, <2>4 DEF Locking, SectionHeld, Section
  <2>6. ASSUME NEW q \in Requests
        PROVE  StillSo(q)'
    BY <2>1, <2>2, <2>3, <2>4 DEF Locking, StillSo, ActiveOn
  <2> QED
    BY <2>1, <2>5, <2>6 DEF Locking, ActiveOrderIsListed, OrdersPlaced, OneActiveOrder
<1> QED
  BY <1>5, <1>6, <1>7, <1>8, <1>9, <1>10 DEF InTheSection

\* A lock that was not released is only held too long.
LEMMA ReleaseFailsLocking ==
    ASSUME LeasesTypeOK, Locking, NEW p \in Requests, ReleaseFails(p)
    PROVE  Locking'
<1>1. /\ Goto(p, After(p)) /\ UNCHANGED <<listing, lock, order, overrun>> /\ lapsed' = lapsed \ {p}
  BY DEF ReleaseFails
<1>2. After(p) \in {"booked", "answer"}
  BY DEF After
<1>3. \A q \in Requests : q # p => request'[q] = request[q]
  BY <1>1, Stepping
<1>4. request'[p].pc = After(p)
  BY <1>1, Stepping
<1>5. SectionHeld'
  BY <1>1, <1>2, <1>3, <1>4 DEF Locking, SectionHeld, Section
<1>6. ASSUME NEW q \in Requests
      PROVE  StillSo(q)'
  BY <1>1, <1>2, <1>3, <1>4 DEF Locking, StillSo, ActiveOn
<1> QED
  BY <1>1, <1>5, <1>6 DEF Locking, ActiveOrderIsListed, OrdersPlaced, OneActiveOrder

\* A lock that lapses under its holder is on record.
LEMMA LapseLocking ==
    ASSUME LeasesTypeOK, Locking, NEW r \in Resources, Lapse(r)
    PROVE  Locking'
<1>1. /\ lock \in [Resources -> Requests \cup {NoRequest}]
  BY TypeParts DEF ReservationType
<1>2. /\ lock' = [lock EXCEPT ![r] = NoRequest] /\ UNCHANGED <<listing, order, request>>
      /\ lapsed \subseteq lapsed' /\ overrun \subseteq overrun'
      /\ InSection(lock[r], r) => (lock[r] \in lapsed' /\ r \in overrun')
  BY DEF Lapse
<1>3. SectionHeld'
  BY <1>1, <1>2 DEF Locking, SectionHeld, InSection
<1>4. ASSUME NEW q \in Requests
      PROVE  StillSo(q)'
  BY <1>2 DEF Locking, StillSo, ActiveOn
<1> QED
  BY <1>2, <1>3, <1>4 DEF Locking, ActiveOrderIsListed, OrdersPlaced, OneActiveOrder

\* The _id of a new order is nobody else's.
LEMMA BookOrders ==
    ASSUME LeasesTypeOK, OrdersOwned, NEW p \in Requests, NEW r \in Resources,
           UNCHANGED charged,
           \/ \E o \in Orders : Book(p, r, o)
           \/ \E to \in Targets : SetListingStatus(p, r, to)
    PROVE  OrdersOwned'
<1>1. /\ request \in [Requests -> RequestType]
  BY TypeParts DEF ReservationType
<1>2. ASSUME NEW o \in Orders, Book(p, r, o)
      PROVE  OrdersOwned'
  <2>1. /\ request'[p] = [pc |-> "find", resource |-> r, order |-> o, to |-> NoTarget]
        /\ \A q \in Requests : q # p => request'[q] = request[q]
        /\ order' = order
    BY <1>1, <1>2 DEF Book, Acquire
  <2>2. order[o].status = "none" /\ \A q \in Requests : Ours(q) # o
    BY <1>2 DEF Book, Ours
  <2>3. o \notin charged
    BY <2>2 DEF OrdersOwned
  <2> QED
    BY <2>1, <2>2, <2>3 DEF OrdersOwned, Creating, Ours
<1>3. ASSUME NEW to \in Targets, SetListingStatus(p, r, to)
      PROVE  OrdersOwned'
  <2>1. /\ request'[p] = [pc |-> "find", resource |-> r, order |-> NoOrder, to |-> to]
        /\ \A q \in Requests : q # p => request'[q] = request[q]
        /\ order' = order
    BY <1>1, <1>3 DEF SetListingStatus, Acquire
  <2>2. to # NoTarget
    BY BookingsAssumption
  <2> QED
    BY <2>1, <2>2 DEF OrdersOwned, Creating, Ours
<1> QED
  BY <1>2, <1>3

\* The next step of a handler in a section is not booked by itself.
LEMMA SectionOrders ==
    ASSUME LeasesTypeOK, Locking, OrdersOwned, NEW p \in Requests, UNCHANGED charged,
           InTheSection(p) \/ ReleaseFails(p)
    PROVE  OrdersOwned'
<1>1. /\ request \in [Requests -> RequestType] /\ order \in [Orders -> Order]
      /\ charged \subseteq Orders
  BY TypeParts DEF ReservationType
<1>2. request[p].pc \in Section
  BY DEF InTheSection, Find, ExpireDue, CheckActive, Insert, SaveListing, Release, ReleaseFails, Section
<1>3. ASSUME NEW pc \in Section \cup {"booked", "answer"}, Goto(p, pc),
             \A o \in Orders : (order'[o].status = "none") <=> (order[o].status = "none"),
             request[p].pc = "release" => pc \in {"booked", "answer"},
             pc = "booked" => (request[p].to = NoTarget /\ order[Ours(p)].status # "none")
      PROVE  OrdersOwned'
  <2>1. /\ \A q \in Requests : q # p => request'[q] = request[q]
        /\ request'[p].pc = pc
        /\ \A q \in Requests : Ours(q)' = Ours(q) /\ request'[q].to = request[q].to
    BY <1>3, Stepping DEF Ours
  <2>2. \A q \in Requests : Creating(q)' => Creating(q)
    BY <1>2, <2>1 DEF Creating
  <2>3. ASSUME NEW q \in Requests, Creating(q)'
        PROVE  /\ Ours(q)' \in Orders \ charged'
               /\ request'[q].pc \notin {"release", "booked"} => order'[Ours(q)'].status = "none"
               /\ request'[q].pc = "booked" => order'[Ours(q)'].status # "none"
    <3>1. Creating(q) /\ Ours(q) \in Orders \ charged
      BY <2>2, <2>3 DEF OrdersOwned
    <3>2. CASE q # p
      BY <1>3, <2>1, <3>1, <3>2 DEF OrdersOwned
    <3>3. CASE q = p
      <4>1. request[p].pc \notin {"release", "booked"} => order[Ours(p)].status = "none"
        BY <3>1, <3>3 DEF OrdersOwned
      <4>2. request[p].pc # "booked" /\ "answer" \notin Section
        BY <1>2 DEF Section
      <4>3. request'[p].pc \in Section \cup {"booked"}
        BY <2>3, <3>3 DEF Creating
      <4>4. request'[p].pc \notin {"release", "booked"} => order[Ours(p)].status = "none"
        BY <1>3, <2>1, <4>1, <4>2, <4>3
      <4> QED
        BY <1>1, <1>3, <2>1, <3>1, <3>3, <4>4
    <3> QED
      BY <3>2, <3>3
  <2>4. \A q1, q2 \in Requests : (Creating(q1)' /\ Creating(q2)' /\ Ours(q1)' = Ours(q2)') => q1 = q2
    BY <2>1, <2>2 DEF OrdersOwned
  <2>5. \A q \in Requests : request'[q].pc = "booked" => request'[q].to = NoTarget
    BY <1>3, <2>1 DEF OrdersOwned
  <2>6. \A o \in charged' : order'[o].status # "none"
    BY <1>1, <1>3 DEF OrdersOwned
  <2> QED
    BY <2>3, <2>4, <2>5, <2>6 DEF OrdersOwned
<1>4. CASE Release(p) \/ ReleaseFails(p)
  <2>1. Goto(p, After(p)) /\ UNCHANGED order
    BY <1>4 DEF Release, ReleaseFails
  <2>2. /\ After(p) \in {"booked", "answer"}
        /\ After(p) = "booked" => (request[p].to = NoTarget /\ order[Ours(p)].status # "none")
    BY DEF After, Ours
  <2> QED
    BY <1>3, <2>1, <2>2
<1>5. CASE Find(p) \/ CheckActive(p) \/ SaveListing(p)
  <2>1. /\ \E pc \in Section : Goto(p, pc)
        /\ UNCHANGED order /\ request[p].pc # "release"
    BY <1>5 DEF Find, CheckActive, SaveListing, Section
  <2> QED
    BY <1>3, <2>1 DEF Section
<1>6. CASE ExpireDue(p)
  <2>1. Goto(p, "check") /\ request[p].pc = "expire"
    BY <1>6 DEF ExpireDue
  <2>2. \A o \in Orders : (order'[o].status = "none") <=> (order[o].status = "none")
    BY <1>1, <1>6 DEF ExpireDue, Expire, Due, Order
  <2> QED
    BY <1>3, <2>1, <2>2 DEF Section
<1>7. CASE Insert(p)
  <2>1. Goto(p, "release") /\ request[p].pc = "insert"
    BY <1>7 DEF Insert
  <2>2. CASE UNCHANGED order
    BY <1>3, <2>1, <2>2 DEF Section
  <2>3. CASE order' # order
    <3> DEFINE o == Ours(p)
    <3>1. /\ o \in Orders \ charged /\ Creating(p)
      BY <2>1 DEF Locking, StillSo, OrdersOwned, Creating, Section
    <3>2. order' = [order EXCEPT ![o] =
                      [status |-> "active", resource |-> request[p].resource, left |-> Duration]]
      BY <1>7, <2>3 DEF Insert, Ours
    <3>3. order'[o].status # "none" /\ \A u \in Orders : u # o => order'[u] = order[u]
      BY <1>1, <3>1, <3>2
    <3>4. /\ \A q \in Requests : q # p => request'[q] = request[q]
          /\ request'[p].pc = "release"
          /\ \A q \in Requests : Ours(q)' = Ours(q) /\ request'[q].to = request[q].to
      BY <2>1, Stepping DEF Ours
    <3>5. \A q \in Requests : Creating(q)' => Creating(q)
      BY <1>2, <3>4 DEF Creating
    <3>6. \A q \in Requests : (q # p /\ Creating(q)) => Ours(q) # o
      BY <3>1 DEF OrdersOwned
    <3>7. ASSUME NEW q \in Requests, Creating(q)'
          PROVE  /\ Ours(q)' \in Orders \ charged'
                 /\ request'[q].pc \notin {"release", "booked"} => order'[Ours(q)'].status = "none"
                 /\ request'[q].pc = "booked" => order'[Ours(q)'].status # "none"
      <4>1. Creating(q) /\ Ours(q) \in Orders \ charged
        BY <3>5, <3>7 DEF OrdersOwned
      <4>2. CASE q # p
        BY <3>3, <3>4, <3>6, <4>1, <4>2 DEF OrdersOwned
      <4>3. CASE q = p
        BY <3>4, <4>1, <4>3
      <4> QED
        BY <4>2, <4>3
    <3>8. \A q1, q2 \in Requests : (Creating(q1)' /\ Creating(q2)' /\ Ours(q1)' = Ours(q2)') => q1 = q2
      BY <3>4, <3>5 DEF OrdersOwned
    <3>9. \A q \in Requests : request'[q].pc = "booked" => request'[q].to = NoTarget
      BY <3>4 DEF OrdersOwned
    <3>10. \A u \in charged' : order'[u].status # "none"
      BY <1>1, <3>3 DEF OrdersOwned
    <3> QED
      BY <3>7, <3>8, <3>9, <3>10 DEF OrdersOwned
  <2> QED
    BY <2>2, <2>3
<1> QED
  BY <1>4, <1>5, <1>6, <1>7 DEF InTheSection

\* A lapse concerns no order.
LEMMA LapseOrders ==
    ASSUME OrdersOwned, UNCHANGED <<charged, request, order>>
    PROVE  OrdersOwned'
BY DEF OrdersOwned, Creating, Ours

-----------------------------------------------------------------------------
(* Reservations leave the saga alone *)

\* Where a handler knows nothing of money.
ReservationSteps == Section \cup {"idle", "answer", "booked", "ended"}

\* Steps that are not of the saga.
Aside ==
    /\ UNCHANGED <<scenario, instance, wallet, torn, work>>
    /\ faults > 0 => faults' > 0
    /\ \A p \in Requests :
         \/ request'[p] = request[p]
         \/ /\ request[p].pc \in ReservationSteps /\ request'[p].pc \in ReservationSteps
            /\ request'[p].pc = "ended" => Ours(p)' \in Orders

\* Reservations, answers and the expiry of orders are aside of the saga.
LEMMA ReservationAside ==
    ASSUME LeasesTypeOK, Reservation \/ Expiry \/ \E p \in Requests : Booking(p)
    PROVE  Aside
<1>1. UNCHANGED <<scenario, instance, wallet, torn, work>>
  BY DEF Reservation, Expiry, Booking
<1>2. /\ request \in [Requests -> RequestType] /\ faults \in Nat
  BY ScenarioType, TypeParts DEF ReservationType
<1>3. ASSUME NEW p \in Requests, NEW r, request' = [request EXCEPT ![p] = r],
             request[p].pc \in ReservationSteps, r.pc \in ReservationSteps, r.pc = "ended" => r.order \in Orders,
             faults > 0 => faults' > 0
      PROVE  Aside
  BY <1>1, <1>2, <1>3 DEF Aside, Ours
<1>4. ASSUME NEW p \in Requests, NEW pc \in Section \cup {"booked", "answer"}, Goto(p, pc),
             request[p].pc \in ReservationSteps, faults > 0 => faults' > 0
      PROVE  Aside
  <2>1. /\ \A q \in Requests : q # p => request'[q] = request[q]
        /\ request'[p].pc = pc
    BY <1>4, Stepping
  <2>2. pc \in ReservationSteps /\ pc # "ended"
    BY DEF ReservationSteps, Section
  <2> QED
    BY <1>1, <1>4, <2>1, <2>2 DEF Aside
<1>5. UNCHANGED <<request, faults>> => Aside
  BY <1>1 DEF Aside
<1>6. ASSUME NEW p \in Requests, NEW r \in Resources,
             \/ \E o \in Orders : Book(p, r, o)
             \/ \E to \in Targets : SetListingStatus(p, r, to)
      PROVE  Aside
  <2>1. PICK o, to : Acquire(p, r, [pc |-> "find", resource |-> r, order |-> o, to |-> to])
    BY <1>6, Zenon DEF Book, SetListingStatus
  <2> DEFINE todo == [pc |-> "find", resource |-> r, order |-> o, to |-> to]
  <2>2. todo.pc = "find"
    OBVIOUS
  <2>3. request' = [request EXCEPT ![p] = todo] /\ request[p].pc = "idle" /\ faults' = faults
    BY <2>1 DEF Acquire
  <2> HIDE DEF todo
  <2> QED
    BY <1>3, <2>2, <2>3 DEF ReservationSteps, Section
<1>7. ASSUME NEW p \in Requests, NEW o \in Orders, ReturnOrder(p, o) \/ CancelOrder(p, o)
      PROVE  Aside
  <2> DEFINE r == [Idle EXCEPT !.pc = "ended", !.order = o]
  <2>1. r.pc = "ended" /\ r.order = o
    BY DEF Idle
  <2>2. request' = [request EXCEPT ![p] = r] /\ request[p].pc = "idle" /\ faults' = faults
    BY <1>7 DEF ReturnOrder, CancelOrder, EndOrder
  <2> HIDE DEF r
  <2> QED
    BY <1>3, <2>1, <2>2 DEF ReservationSteps
<1>8. ASSUME NEW p \in Requests, ReleaseFails(p)
      PROVE  Aside
  <2>1. Goto(p, After(p)) /\ request[p].pc = "release" /\ faults' > 0
    BY <1>2, <1>8 DEF ReleaseFails
  <2> QED
    BY <1>4, <2>1 DEF After, ReservationSteps, Section
<1>9. ASSUME NEW r \in Resources, Lapse(r)
      PROVE  Aside
  BY <1>5, <1>9 DEF Lapse
<1>10. ExpireDueOrders => Aside
  BY <1>5 DEF ExpireDueOrders
<1>11. ASSUME NEW p \in Requests, Booking(p)
       PROVE  Aside
  <2>1. CASE Answer(p)
    <3>1. Idle.pc = "idle" /\ request' = [request EXCEPT ![p] = Idle] /\ request[p].pc = "answer"
      BY <2>1 DEF Idle, Answer
    <3> QED
      BY <1>3, <2>1, <3>1 DEF Answer, ReservationSteps
  <2>2. CASE InTheSection(p)
    <3>1. /\ \E pc \in Section \cup {"booked", "answer"} : Goto(p, pc)
          /\ faults' = faults /\ request[p].pc \in ReservationSteps
      BY <2>2 DEF InTheSection, Find, ExpireDue, CheckActive, Insert, SaveListing, Release, After,
                  Section, ReservationSteps
    <3> QED
      BY <1>4, <3>1
  <2> QED
    BY <1>11, <2>1, <2>2 DEF Booking
<1> QED
  BY <1>6, <1>7, <1>8, <1>9, <1>10, <1>11 DEF Reservation, Expiry, Handlers

\* What is aside of the saga keeps what was paid, awaited and booked.
LEMMA AsideKeeps ==
    ASSUME LeasesTypeOK, Paying, RepaymentAwaited, Booked, Aside
    PROVE  Paying' /\ RepaymentAwaited' /\ Booked'
<1>1. ReservationSteps \cap (Saga \cup {"provision", "undoRefund", "undo", "undoFind", "return", "refund",
                                 "start", "saveStart", "saveStop", "refused"}) = {}
  BY DEF ReservationSteps, Saga, Section
<1>2. UNCHANGED <<scenario, instance, charged, refunded, balance, toppedUp, torn, work>>
  BY DEF Aside, wallet
<1>3. ASSUME NEW p \in Requests
      PROVE  WorkPaid(p)'
  <2>1. WorkPaid(p)
    BY DEF Paying
  <2>2. CASE request'[p] = request[p]
    BY <1>2, <2>1, <2>2 DEF WorkPaid, Ours
  <2>3. CASE request'[p] # request[p]
    <3>1. /\ request[p].pc \in ReservationSteps /\ request'[p].pc \in ReservationSteps
          /\ request'[p].pc = "ended" => Ours(p)' \in Orders
      BY <2>3 DEF Aside
    <3> QED
      BY <1>1, <1>2, <2>1, <3>1 DEF WorkPaid
  <2> QED
    BY <2>2, <2>3
<1>4. RefusedIsRepaid'
  <2>1. \A p \in Requests : request'[p].pc = "refused" => request'[p] = request[p]
    BY <1>1 DEF Aside
  <2> QED
    BY <1>2, <2>1 DEF Paying, RefusedIsRepaid, Ours, Unused
<1>5. Paying'
  BY <1>2, <1>3, <1>4 DEF Paying, RefundFollowsCharge
<1>6. RepaymentAwaited'
  <2>1. \A p \in Requests : request[p].pc \in {"return", "refund"} => request'[p] = request[p]
    BY <1>1 DEF Aside
  <2> QED
    BY <1>2, <2>1 DEF RepaymentAwaited, Awaited, Repays, Ours, Aside
<1>7. Booked'
  BY <1>2 DEF Booked, BalanceIsLedger, Repaid
<1> QED
  BY <1>5, <1>6, <1>7

-----------------------------------------------------------------------------
(* Steps of the saga *)

\* What one handler does to what the others rely on.
Frame(p) ==
    /\ \A q \in Requests : q # p => (request'[q] = request[q] /\ work'[q] = work[q])
    /\ charged \subseteq charged'
    /\ \A o \in Orders : refunded[o] > 0 => refunded'[o] > 0
    /\ torn \subseteq torn'
    /\ faults > 0 => faults' > 0

\* A charge is one more entry.
LEMMA ChargeGrows ==
    ASSUME LeasesTypeOK, NEW o
    PROVE  Charge(o) => (charged' = charged \cup {o} /\ UNCHANGED refunded)
BY DEF Charge

\* A refund is made once, and of no more than was asked for.
LEMMA RefundGrows ==
    ASSUME LeasesTypeOK, NEW o \in Orders, NEW a \in Int, RefundUnused(o, a)
    PROVE  /\ charged' = charged
           /\ \A u \in Orders : u # o => refunded'[u] = refunded[u]
           /\ refunded'[o] = refunded[o] \/ (refunded[o] = 0 /\ a > 0 /\ refunded'[o] = a)
           /\ a > 0 => refunded'[o] > 0
<1>1. refunded \in [Orders -> Nat]
  BY DEF LeasesTypeOK
<1>2. CASE a > 0 /\ refunded[o] = 0
  BY <1>1, <1>2 DEF RefundUnused
<1>3. CASE ~(a > 0 /\ refunded[o] = 0)
  BY <1>1, <1>3 DEF RefundUnused, wallet
<1> QED
  BY <1>2, <1>3

\* A handler changes its own request and work, and takes no entry back.
LEMMA SagaFrame ==
    ASSUME LeasesTypeOK, OrdersOwned, Paying, NEW p \in Requests,
           SagaStep(p) \/ Dies(p)
    PROVE  Frame(p)
<1> USE DEF SagaStep
<1>1. /\ request \in [Requests -> RequestType] /\ work \in [Requests -> WorkType]
      /\ faults \in Nat /\ refunded \in [Orders -> Nat]
  BY ScenarioType, TypeParts DEF ReservationType
<1>2. \A q \in Requests : q # p => (request'[q] = request[q] /\ work'[q] = work[q])
  <2>1. CASE SaveTerminated(p)
    BY <1>1, <2>1 DEF SaveTerminated
  <2>2. CASE ~SaveTerminated(p)
    BY <1>1, <2>2
       DEF TopUp, SaveTopUp, ChargeOrder, InsufficientBalance, ChargeFails, CreateForOrder,
           CreateFails, Undo, UndoRefund, Refused, FindByOrder, Sweep, ReturnTerminated,
           RefundTerminated, CheckOrder, SaveStart, SaveStop, Dies, Crash, Terminate, Start, Stop,
           Move, Finish, Goto, Reads
  <2> QED
    BY <2>1, <2>2
<1>3. charged \subseteq charged' /\ \A o \in Orders : refunded[o] > 0 => refunded'[o] > 0
  <2>1. CASE UndoRefund(p) \/ RefundTerminated(p)
    <3>1. PICK o \in Orders, a \in Int : RefundUnused(o, a)
      BY <2>1, WorkedOn, UnusedType, DurationType DEF UndoRefund, RefundTerminated, Price
    <3> QED
      BY <1>1, <3>1, RefundGrows
  <2>2. CASE ChargeOrder(p) \/ ChargeFails(p)
    <3>1. Charge(Ours(p)) \/ UNCHANGED wallet
      BY <2>2 DEF ChargeOrder, ChargeFails
    <3> QED
      BY <3>1, ChargeGrows DEF wallet
  <2>3. CASE ~(UndoRefund(p) \/ RefundTerminated(p) \/ ChargeOrder(p) \/ ChargeFails(p))
    BY <2>3
       DEF TopUp, SaveTopUp, InsufficientBalance, CreateForOrder,
           CreateFails, Undo, Refused, FindByOrder, Sweep, SaveTerminated, ReturnTerminated,
           CheckOrder, SaveStart, SaveStop, Dies, Terminate, Start, Stop, wallet
  <2> QED
    BY <2>1, <2>2, <2>3
<1>4. torn \subseteq torn'
  <2>1. CASE UNCHANGED torn
    BY <2>1
  <2>2. \A o, doc : Overwrites(o, doc) => torn \subseteq torn'
    BY DEF Overwrites
  <2>3. CASE SaveTopUp(p) \/ SaveTerminated(p) \/ SaveStart(p) \/ SaveStop(p)
    BY <2>2, <2>3 DEF SaveTopUp, SaveTerminated, SaveStart, SaveStop
  <2> QED
    BY <2>1, <2>3
       DEF TopUp, ChargeOrder, InsufficientBalance, ChargeFails, CreateForOrder,
           CreateFails, Undo, UndoRefund, Refused, FindByOrder, Sweep, ReturnTerminated,
           RefundTerminated, CheckOrder, Dies, Terminate, Start, Stop
<1>5. faults > 0 => faults' > 0
  <2>1. CASE ChargeFails(p) \/ CreateFails(p) \/ Dies(p)
    BY <1>1, <2>1 DEF ChargeFails, CreateFails, Dies, Crash, Fails
  <2>2. CASE ~(ChargeFails(p) \/ CreateFails(p) \/ Dies(p))
    <3>1. faults' = faults
      BY <2>2
         DEF TopUp, SaveTopUp, ChargeOrder, InsufficientBalance, CreateForOrder,
             Undo, UndoRefund, Refused, FindByOrder, Sweep, SaveTerminated, ReturnTerminated,
             RefundTerminated, CheckOrder, SaveStart, SaveStop, Terminate, Start, Stop
    <3> QED
      BY <3>1
  <2> QED
    BY <2>1, <2>2
<1> QED
  BY <1>2, <1>3, <1>4, <1>5 DEF Frame

\* What the moving handler has to show for Paying.
LEMMA PayingKept ==
    ASSUME Paying, NEW p \in Requests, Frame(p), WorkPaid(p)',
           \A o \in Orders : instance'[o].status # "none" => o \in charged',
           \A o \in Orders : refunded'[o] # refunded[o] =>
               (o \in charged' /\ refunded'[o] <= Price),
           (request'[p].pc = "refused" /\ work'[p].charged) =>
               \/ refunded'[Ours(p)'] > 0
               \/ \E o \in DOMAIN work'[p].docs : Unused(work'[p].docs[o]) = 0,
           charged \subseteq Orders
    PROVE  Paying'
<1>1. ASSUME NEW q \in Requests, q # p
      PROVE  /\ WorkPaid(q)'
             /\ (request'[q].pc = "refused" /\ work'[q].charged) =>
                  \/ refunded'[Ours(q)'] > 0
                  \/ \E o \in DOMAIN work'[q].docs : Unused(work'[q].docs[o]) = 0
  <2>1. /\ WorkPaid(q) /\ request'[q] = request[q] /\ work'[q] = work[q] /\ Ours(q)' = Ours(q)
    BY <1>1 DEF Paying, Frame, Ours
  <2>2. WorkPaid(q)'
    BY <2>1 DEF WorkPaid, Frame
  <2>3. (request[q].pc = "refused" /\ work[q].charged) =>
           \/ refunded[Ours(q)] > 0 /\ Ours(q) \in Orders
           \/ \E o \in DOMAIN work[q].docs : Unused(work[q].docs[o]) = 0
    BY <2>1 DEF Paying, RefusedIsRepaid, WorkPaid
  <2> QED
    BY <2>1, <2>2, <2>3 DEF Frame
<1>2. RefusedIsRepaid'
  BY <1>1 DEF RefusedIsRepaid, Unused, Price
<1>3. RefundFollowsCharge'
  BY DEF Paying, RefundFollowsCharge, Frame, Price
<1> QED
  BY <1>1, <1>2, <1>3 DEF Paying

\* A handler that has answered has nothing to show.
LEMMA FinishPays ==
    ASSUME LeasesTypeOK, NEW p \in Requests,
           request' = [request EXCEPT ![p] = Idle], work' = [work EXCEPT ![p] = NoWork]
    PROVE  WorkPaid(p)' /\ request'[p].pc # "refused"
<1>1. /\ request \in [Requests -> RequestType] /\ work \in [Requests -> WorkType]
  BY TypeParts DEF ReservationType
<1>2. request'[p] = Idle /\ work'[p] = NoWork
  BY <1>1
<1>3. Idle.pc = "idle" /\ ~NoWork.charged /\ DOMAIN NoWork.docs = {}
  BY DEF Idle, NoWork
<1> QED
  BY <1>2, <1>3 DEF WorkPaid

\* Every step of the saga keeps what was charged for, and repays what it must.
LEMMA PayingSaga ==
    ASSUME LeasesTypeOK, OrdersOwned, Paying, NEW p \in Requests,
           SagaStep(p) \/ Dies(p)
    PROVE  Paying'
<1> USE DEF SagaStep
<1>1. /\ request \in [Requests -> RequestType] /\ work \in [Requests -> WorkType]
      /\ instance \in [Orders -> Document] /\ charged \subseteq Orders
      /\ refunded \in [Orders -> Nat]
  BY TypeParts DEF ReservationType
<1>2. Frame(p) /\ WorkPaid(p) /\ charged \subseteq charged'
  BY SagaFrame DEF Paying, Frame
<1>3. \A o \in Orders : instance[o].status # "none" => o \in charged
  BY DEF Paying
<1>4. work[p].docs \in Documents
  BY <1>1 DEF WorkType
\* Steps that leave the documents and the refunds alone.
<1>5. ASSUME WorkPaid(p)', \A o \in Orders : instance'[o].status # "none" => o \in charged',
             UNCHANGED refunded, request'[p].pc = "refused" => ~work'[p].charged
      PROVE  Paying'
  BY <1>1, <1>2, <1>5, PayingKept
<1>6. ASSUME Finish(p), \A o \in Orders : instance'[o].status # "none" => o \in charged',
             UNCHANGED refunded
      PROVE  Paying'
  BY <1>5, <1>6, FinishPays DEF Finish
<1>7. UNCHANGED instance => \A o \in Orders : instance'[o].status # "none" => o \in charged'
  BY <1>2, <1>3
<1>8. ASSUME NEW pc, Goto(p, pc)
      PROVE  request'[p].pc = pc /\ Ours(p)' = Ours(p)
  BY <1>8, Stepping DEF Ours
<1>9. ASSUME NEW o \in charged, NEW doc, instance' = [instance EXCEPT ![o] = doc]
      PROVE  \A u \in Orders : instance'[u].status # "none" => u \in charged'
  BY <1>1, <1>2, <1>3, <1>9
<1>10. ASSUME NEW O, NEW b, Reads(p, O, b)
       PROVE  DOMAIN work'[p].docs = O /\ work'[p].charged = work[p].charged
  BY <1>1, <1>10 DEF Reads, WorkType
<1>11. ASSUME UNCHANGED wallet PROVE UNCHANGED <<charged, refunded>>
  BY <1>11 DEF wallet
<1>12. CASE TopUp(p)
  <2>1. /\ Goto(p, "topUp") /\ request[p].pc = "idle" /\ UNCHANGED <<instance, wallet>>
        /\ work' = [work EXCEPT ![p].seen = balance]
    BY <1>12 DEF TopUp
  <2>2. work'[p].charged = work[p].charged /\ work'[p].docs = work[p].docs
    BY <1>1, <2>1 DEF WorkType
  <2>3. WorkPaid(p)'
    BY <1>2, <1>8, <2>1, <2>2 DEF WorkPaid, Saga
  <2> QED
    BY <1>5, <1>7, <1>8, <1>11, <2>1, <2>3
<1>13. CASE SaveTopUp(p)
  BY <1>6, <1>7, <1>13 DEF SaveTopUp
<1>14. CASE ChargeOrder(p)
  <2>1. /\ Goto(p, "provision") /\ UNCHANGED <<instance, refunded>>
        /\ charged' = charged \cup {Ours(p)}
        /\ work' = [work EXCEPT ![p].charged = TRUE]
    BY <1>14 DEF ChargeOrder, Charge
  <2>2. work'[p].charged /\ work'[p].docs = work[p].docs
    BY <1>1, <2>1 DEF WorkType
  <2>3. WorkPaid(p)'
    BY <1>2, <1>8, <2>1, <2>2 DEF WorkPaid, Saga
  <2> QED
    BY <1>5, <1>7, <1>8, <2>1, <2>3
<1>15. CASE InsufficientBalance(p) \/ ChargeFails(p)
  <2>1. /\ Goto(p, "undo") /\ UNCHANGED <<instance, refunded, work>> /\ request[p].pc = "booked"
    BY <1>11, <1>15 DEF InsufficientBalance, ChargeFails, Charge, Move
  <2>2. Ours(p) \in Orders
    BY <2>1, WorkedOn
  <2>3. WorkPaid(p)'
    BY <1>2, <1>8, <2>1, <2>2 DEF WorkPaid, Saga
  <2> QED
    BY <1>5, <1>7, <1>8, <2>1, <2>3
<1>16. CASE CreateForOrder(p)
  <2>1. /\ Finish(p) /\ instance' = [instance EXCEPT ![Ours(p)] = Running] /\ UNCHANGED refunded
        /\ request[p].pc = "provision"
    BY <1>11, <1>16 DEF CreateForOrder
  <2>2. Ours(p) \in charged
    BY <1>2, <2>1 DEF WorkPaid
  <2> QED
    BY <1>6, <1>9, <2>1, <2>2
<1>17. CASE CreateFails(p)
  <2>1. /\ Goto(p, "undo") /\ UNCHANGED <<refunded, work>> /\ request[p].pc = "provision"
        /\ UNCHANGED instance \/ instance' = [instance EXCEPT ![Ours(p)] = Running]
    BY <1>11, <1>17 DEF CreateFails, Move
  <2>2. Ours(p) \in charged
    BY <1>2, <2>1 DEF WorkPaid
  <2>3. WorkPaid(p)'
    BY <1>1, <1>2, <1>8, <2>1, <2>2 DEF WorkPaid, Saga
  <2> QED
    BY <1>5, <1>7, <1>8, <1>9, <2>1, <2>2, <2>3
<1>18. CASE Undo(p)
  <2>1. UNCHANGED <<instance, refunded>> /\ request[p].pc = "undo"
    BY <1>11, <1>18 DEF Undo
  <2>2. CASE Finish(p)
    BY <1>6, <1>7, <2>1, <2>2
  <2>3. CASE Move(p, "undoFind")
    <3>1. WorkPaid(p)'
      BY <1>2, <1>8, <2>1, <2>3 DEF WorkPaid, Saga, Move
    <3> QED
      BY <1>5, <1>7, <1>8, <2>1, <2>3, <3>1 DEF Move
  <2> QED
    BY <1>18, <2>2, <2>3 DEF Undo
<1>19. CASE UndoRefund(p)
  <2>1. /\ Move(p, "refused") /\ UNCHANGED instance /\ request[p].pc = "undoRefund"
        /\ RefundUnused(Ours(p), Price)
    BY <1>19 DEF UndoRefund
  <2>2. Ours(p) \in charged
    BY <1>2, <2>1 DEF WorkPaid
  <2>3. /\ \A o \in Orders : refunded'[o] # refunded[o] => (o = Ours(p) /\ refunded'[o] = Price)
        /\ refunded'[Ours(p)] > 0
    BY <1>1, <2>1, <2>2, RefundGrows, DurationType DEF Price
  <2>4. WorkPaid(p)'
    BY <1>2, <1>8, <2>1, <2>2 DEF WorkPaid, Saga, Move
  <2>5. Ours(p)' = Ours(p) /\ Price <= Price
    BY <1>8, <2>1, DurationType DEF Move, Price
  <2> QED
    BY <1>1, <1>2, <1>7, <2>1, <2>2, <2>3, <2>4, <2>5, PayingKept
<1>20. CASE Refused(p)
  BY <1>6, <1>7, <1>11, <1>20 DEF Refused
<1>21. CASE FindByOrder(p)
  <2>1. UNCHANGED <<instance, refunded>> /\ request[p].pc \in {"undoFind", "ended"}
    BY <1>11, <1>21 DEF FindByOrder
  <2>2. Ours(p) \in Orders
    BY <2>1, WorkedOn
  <2>3. CASE instance[Ours(p)].status # "none"
    <3>1. Goto(p, "terminate") /\ Reads(p, {Ours(p)}, FALSE)
      BY <1>21, <2>3 DEF FindByOrder
    <3>2. Ours(p) \in charged' /\ request'[p].pc = "terminate" /\ Ours(p)' = Ours(p)
      BY <1>2, <1>3, <1>8, <2>2, <2>3, <3>1
    <3>3. DOMAIN work'[p].docs = {Ours(p)}
      BY <1>10, <3>1
    <3>4. WorkPaid(p)'
      BY <3>2, <3>3 DEF WorkPaid, Saga
    <3> QED
      BY <1>5, <1>7, <2>1, <3>2, <3>4
  <2>4. CASE Finish(p)
    BY <1>6, <1>7, <2>1, <2>4
  <2>5. CASE Move(p, IF work[p].charged THEN "undoRefund" ELSE "refused")
    <3>1. WorkPaid(p)'
      BY <1>2, <1>8, <2>1, <2>5 DEF WorkPaid, Saga, Move
    <3>2. request'[p].pc = "refused" => ~work'[p].charged
      BY <1>8, <2>5 DEF Move
    <3> QED
      BY <1>5, <1>7, <2>1, <3>1, <3>2
  <2> QED
    BY <1>21, <2>3, <2>4, <2>5 DEF FindByOrder
<1>22. CASE Sweep(p) \/ \E o \in Orders : Terminate(p, o)
  <2>1. PICK O \in SUBSET charged, b \in BOOLEAN : Reads(p, O, b)
    <3>1. CASE Sweep(p)
      <4>1. Expired \in SUBSET charged /\ Reads(p, Expired, FALSE)
        BY <1>3, <3>1 DEF Expired, Sweep
      <4> QED
        BY <4>1
    <3>2. ASSUME NEW o \in Orders, Terminate(p, o)
          PROVE  \E O \in SUBSET charged, b \in BOOLEAN : Reads(p, O, b)
      <4>1. {o} \in SUBSET charged /\ Reads(p, {o}, TRUE)
        BY <1>3, <3>2 DEF Terminate
      <4> QED
        BY <4>1
    <3> QED
      BY <1>22, <3>1, <3>2
  <2>2. Goto(p, "terminate") /\ request[p].pc = "idle" /\ UNCHANGED <<instance, refunded>>
    BY <1>11, <1>22 DEF Sweep, Terminate, Goto
  <2>3. WorkPaid(p)'
    BY <1>2, <1>8, <1>10, <2>1, <2>2 DEF WorkPaid, Saga
  <2> QED
    BY <1>5, <1>7, <1>8, <2>2, <2>3
<1>23. CASE SaveTerminated(p)
  <2>1. PICK o \in DOMAIN work[p].docs : SaveTerminated(p)!2!(o)
    BY <1>23 DEF SaveTerminated
  <2>2. o \in charged /\ request[p].pc = "terminate" /\ UNCHANGED refunded
    BY <1>2, <1>11, <1>23 DEF WorkPaid, SaveTerminated
  <2>3. \A u \in Orders : instance'[u].status # "none" => u \in charged'
    BY <1>7, <1>9, <2>1, <2>2
  <2>4. request'[p].pc \in {"return", "refund"} /\ Ours(p)' = o
    BY <1>1, <2>1 DEF RequestType, Ours
  <2>5. work'[p].charged = work[p].charged /\ DOMAIN work'[p].docs = DOMAIN work[p].docs
    BY <1>1, <2>1 DEF WorkType
  <2>6. WorkPaid(p)'
    BY <1>2, <2>2, <2>4, <2>5 DEF WorkPaid, Saga
  <2> QED
    BY <1>5, <2>2, <2>3, <2>4, <2>6
<1>24. CASE ReturnTerminated(p)
  <2>1. Move(p, "refund") /\ request[p].pc = "return" /\ UNCHANGED <<instance, refunded>>
    BY <1>11, <1>24 DEF ReturnTerminated
  <2>2. WorkPaid(p)'
    BY <1>2, <1>8, <2>1 DEF WorkPaid, Saga, Move
  <2> QED
    BY <1>5, <1>7, <1>8, <2>1, <2>2 DEF Move
<1>25. CASE RefundTerminated(p)
  <2> DEFINE rest == DOMAIN work[p].docs \ {Ours(p)}
             a == Unused(Doc(p))
  <2>1. /\ request[p].pc = "refund" /\ UNCHANGED instance /\ RefundUnused(Ours(p), a)
    BY <1>25 DEF RefundTerminated
  <2>2. /\ Ours(p) \in DOMAIN work[p].docs /\ Ours(p) \in charged
        /\ a \in Int /\ a >= 0 /\ a <= Price
    BY <1>2, <2>1, WorkedOn, UnusedType DEF WorkPaid
  <2> HIDE DEF a
  <2>3. /\ \A o \in Orders : refunded'[o] # refunded[o] => (o = Ours(p) /\ refunded'[o] = a)
        /\ refunded'[Ours(p)] > 0 \/ a = 0
    BY <1>1, <2>1, <2>2, RefundGrows
  <2>4. ASSUME WorkPaid(p)',
               (request'[p].pc = "refused" /\ work'[p].charged) =>
                 (Ours(p)' = Ours(p) /\ work'[p].docs = work[p].docs)
        PROVE  Paying'
    <3>1. a = 0 => Unused(work[p].docs[Ours(p)]) = 0
      BY DEF a, Doc
    <3> QED
      BY <1>1, <1>2, <1>7, <2>1, <2>2, <2>3, <2>4, <3>1, PayingKept
  <2>5. CASE rest # {}
    <3>1. Goto(p, "terminate") /\ work' = [work EXCEPT ![p].docs = Restrict(@, rest)]
      BY <1>25, <2>5 DEF RefundTerminated
    <3>2. work'[p].charged = work[p].charged /\ DOMAIN work'[p].docs = rest
      BY <1>1, <3>1 DEF WorkType, Restrict
    <3>3. WorkPaid(p)'
      BY <1>2, <1>8, <2>1, <3>1, <3>2 DEF WorkPaid, Saga
    <3> QED
      BY <1>8, <2>4, <3>1, <3>3
  <2>6. CASE Finish(p)
    BY <2>4, <2>6, FinishPays DEF Finish
  <2>7. CASE Move(p, "refused")
    <3>1. WorkPaid(p)'
      BY <1>2, <1>8, <2>1, <2>7 DEF WorkPaid, Saga, Move
    <3> QED
      BY <1>8, <2>4, <2>7, <3>1 DEF Move
  <2> QED
    BY <1>25, <2>5, <2>6, <2>7 DEF RefundTerminated
<1>26. CASE CheckOrder(p)
  <2>1. UNCHANGED <<instance, refunded>> /\ request[p].pc = "start"
    BY <1>11, <1>26 DEF CheckOrder
  <2>2. CASE Finish(p)
    BY <1>6, <1>7, <2>1, <2>2
  <2>3. CASE Move(p, "saveStart")
    <3>1. WorkPaid(p)'
      BY <1>2, <1>8, <2>1, <2>3 DEF WorkPaid, Saga, Move
    <3> QED
      BY <1>5, <1>7, <1>8, <2>1, <2>3, <3>1 DEF Move
  <2> QED
    BY <1>26, <2>2, <2>3 DEF CheckOrder
<1>27. CASE SaveStart(p) \/ SaveStop(p)
  <2>1. /\ Finish(p) /\ UNCHANGED refunded /\ request[p].pc \in {"saveStart", "saveStop"}
        /\ \E doc : instance' = [instance EXCEPT ![Ours(p)] = doc]
    BY <1>11, <1>27 DEF SaveStart, SaveStop
  <2>2. Ours(p) \in charged
    BY <1>2, <2>1 DEF WorkPaid
  <2> QED
    BY <1>6, <1>9, <2>1, <2>2
<1>28. ASSUME NEW o \in Orders, Start(p, o) \/ Stop(p, o)
       PROVE  Paying'
  <2>1. /\ Reads(p, {o}, FALSE) /\ request[p].pc = "idle" /\ UNCHANGED <<instance, refunded>>
        /\ instance[o].status # "none"
    BY <1>11, <1>28 DEF Start, Stop
  <2>2. Ours(p)' = o /\ request'[p].pc \in {"terminate", "start", "saveStop"}
    <3>1. CASE Start(p, o)
      <4> DEFINE pc == IF order[o].left = 0 THEN "terminate" ELSE "start"
      <4>1. request' = [request EXCEPT ![p] = [request[p] EXCEPT !.order = o, !.pc = pc]]
        BY <1>1, <3>1 DEF Start
      <4> QED
        BY <1>1, <4>1 DEF Ours, RequestType
    <3>2. CASE Stop(p, o)
      <4>1. request' = [request EXCEPT ![p] = [request[p] EXCEPT !.order = o, !.pc = "saveStop"]]
        BY <1>1, <3>2 DEF Stop
      <4> QED
        BY <1>1, <4>1 DEF Ours, RequestType
    <3> QED
      BY <1>28, <3>1, <3>2
  <2>3. WorkPaid(p)'
    <3>1. o \in charged' /\ ~work'[p].charged
      BY <1>2, <1>3, <1>10, <2>1 DEF WorkPaid, Saga
    <3>2. DOMAIN work'[p].docs = {o}
      BY <1>10, <2>1
    <3> QED
      BY <2>2, <3>1, <3>2 DEF WorkPaid, Saga
  <2> QED
    BY <1>5, <1>7, <2>1, <2>2, <2>3
<1>29. CASE Dies(p)
  <2>1. Finish(p) /\ UNCHANGED <<instance, refunded>>
    BY <1>11, <1>29 DEF Dies, Crash, Finish
  <2> QED
    BY <1>6, <1>7, <2>1
<1> QED
  BY <1>12, <1>13, <1>14, <1>15, <1>16, <1>17, <1>18, <1>19, <1>20, <1>21, <1>22, <1>23, <1>24,
     <1>25, <1>26, <1>27, <1>28, <1>29

\* The clock moves no money, and a terminated instance has no running time.
LEMMA TickKeeps ==
    ASSUME LeasesTypeOK, Paying, RepaymentAwaited, Booked, LeasesTick
    PROVE  Paying' /\ RepaymentAwaited' /\ Booked'
<1>1. instance \in [Orders -> Document]
  BY TypeParts
<1>2. UNCHANGED <<scenario, request, faults, charged, refunded, balance, toppedUp, work, torn>>
  BY DEF LeasesTick, lockState, wallet
<1>3. \A o \in Orders : instance'[o].status = instance[o].status /\ instance'[o].ran = instance[o].ran
  BY <1>1, DocumentType DEF LeasesTick
<1>4. Paying'
  <2>1. \A p \in Requests : WorkPaid(p)'
    BY <1>2 DEF Paying, WorkPaid, Ours
  <2>2. RefusedIsRepaid' /\ RefundFollowsCharge'
    BY <1>2 DEF Paying, RefusedIsRepaid, RefundFollowsCharge, Ours, Unused
  <2> QED
    BY <1>2, <1>3, <2>1, <2>2 DEF Paying
<1>5. RepaymentAwaited'
  BY <1>2, <1>3 DEF RepaymentAwaited, Awaited, Repays, Ours
<1>6. Booked'
  BY <1>2 DEF Booked, BalanceIsLedger, Repaid
<1> QED
  BY <1>4, <1>5, <1>6

-----------------------------------------------------------------------------
(* What was not used is repaid *)

\* What stays awaited, when a handler changes nothing but its own.
LEMMA AwaitedKept ==
    ASSUME RepaymentAwaited, NEW p \in Requests, Frame(p),
           request[p].pc \notin {"return", "refund"}, NEW o \in Orders,
           instance'[o].status = "terminated" =>
              (instance[o].status = "terminated" /\ instance'[o].ran = instance[o].ran)
    PROVE  Awaited(o)'
<1> SUFFICES ASSUME instance'[o].status = "terminated" PROVE Awaited(o)'
  BY DEF Awaited
<1>1. Awaited(o) /\ instance[o].status = "terminated" /\ instance'[o].ran = instance[o].ran
  BY DEF RepaymentAwaited
<1>2. ASSUME NEW q \in Requests, Repays(q, o)
      PROVE  Repays(q, o)'
  <2>1. q # p
    BY <1>2 DEF Repays
  <2> QED
    BY <1>1, <1>2, <2>1 DEF Repays, Frame, Ours
<1> QED
  BY <1>1, <1>2 DEF Awaited, Frame

\* Who terminates an instance repays it, unless a save undoes the one of another.
LEMMA AwaitedSaga ==
    ASSUME LeasesTypeOK, OrdersOwned, Paying, RepaymentAwaited, NEW p \in Requests,
           SagaStep(p) \/ Dies(p)
    PROVE  RepaymentAwaited'
<1> USE DEF SagaStep
<1>1. /\ request \in [Requests -> RequestType] /\ work \in [Requests -> WorkType]
      /\ instance \in [Orders -> Document] /\ refunded \in [Orders -> Nat] /\ faults \in Nat
  BY ScenarioType, TypeParts DEF ReservationType
<1>2. Frame(p)
  BY SagaFrame
<1>3. CASE Dies(p)
  <2>1. faults' > 0
    BY <1>1, <1>3 DEF Dies, Crash
  <2> QED
    BY <2>1 DEF RepaymentAwaited, Awaited
<1>4. CASE SaveTerminated(p)
  <2>1. PICK o \in DOMAIN work[p].docs : SaveTerminated(p)!2!(o)
    BY <1>4 DEF SaveTerminated
  <2>2. o \in Orders /\ work[p].docs[o] \in Document /\ request[p].pc = "terminate"
    BY <1>4, WorkTypes DEF SaveTerminated
  <2>3. CASE work[p].docs[o].status = "terminated"
    BY <1>2, <2>1, <2>2, <2>3, AwaitedKept DEF RepaymentAwaited
  <2>4. CASE work[p].docs[o].status # "terminated"
    <3> DEFINE doc == work[p].docs[o]
    <3>1. /\ instance' = [instance EXCEPT ![o] = Saved(instance[o], doc, "terminated")]
          /\ Overwrites(o, doc)
          /\ request' = [request EXCEPT ![p].order = o,
                              ![p].pc = IF work[p].returns THEN "return" ELSE "refund"]
          /\ work' = [work EXCEPT ![p].docs[o] = [Paused(doc) EXCEPT !.status = "terminated"]]
      BY <1>1, <2>1, <2>2, <2>4
    <3>2. ASSUME NEW u \in Orders, u # o
          PROVE  Awaited(u)'
      BY <1>1, <1>2, <2>2, <3>1, <3>2, AwaitedKept
    <3>3. CASE instance[o].status = doc.status /\ instance[o].ran = doc.ran
      <4>1. instance'[o].ran = Paused(doc).ran
        BY <1>1, <2>2, <3>1, <3>3 DEF Saved
      <4>2. Ours(p)' = o /\ request'[p].pc \in {"return", "refund"}
        BY <1>1, <3>1 DEF RequestType, Ours
      <4>3. Paused(doc) \in Document /\ Paused(doc).run = Never
        BY <2>2, DocumentType
      <4>4. /\ o \in DOMAIN work'[p].docs
            /\ work'[p].docs[o] = [Paused(doc) EXCEPT !.status = "terminated"]
        BY <1>1, <3>1 DEF WorkType
      <4>5. work'[p].docs[o].ran = Paused(doc).ran /\ work'[p].docs[o].run = Never
        BY <4>3, <4>4, SetStatus
      <4>6. Repays(p, o)'
        BY <4>1, <4>2, <4>4, <4>5 DEF Repays
      <4> QED
        BY <3>2, <4>6 DEF RepaymentAwaited, Awaited
    <3>4. CASE ~(instance[o].status = doc.status /\ instance[o].ran = doc.ran)
      BY <3>1, <3>2, <3>4 DEF Overwrites, RepaymentAwaited, Awaited
    <3> QED
      BY <3>3, <3>4
  <2> QED
    BY <2>3, <2>4
<1>5. CASE ReturnTerminated(p)
  <2>1. Move(p, "refund") /\ UNCHANGED <<instance, wallet, torn, faults>> /\ request[p].pc = "return"
    BY <1>5 DEF ReturnTerminated
  <2>2. /\ \A q \in Requests : q # p => request'[q] = request[q]
        /\ request'[p].pc = "refund" /\ Ours(p)' = Ours(p) /\ UNCHANGED work
    BY <2>1, Stepping DEF Move, Ours
  <2>3. \A q \in Requests : \A o \in Orders : Repays(q, o) => Repays(q, o)'
    BY <2>1, <2>2 DEF Repays, Ours
  <2> QED
    BY <2>1, <2>3 DEF RepaymentAwaited, Awaited, wallet
<1>6. CASE RefundTerminated(p)
  <2>1. request[p].pc = "refund" /\ UNCHANGED <<instance, torn, faults>> /\ RefundUnused(Ours(p), Unused(Doc(p)))
    BY <1>6 DEF RefundTerminated
  <2>2. Ours(p) \in Orders /\ Doc(p) \in Document
    BY <2>1, WorkedOn
  <2>3. Unused(Doc(p)) \in Int /\ Unused(Doc(p)) = Duration - Paused(Doc(p)).ran
    BY <2>2, UnusedType
  <2>4. Unused(Doc(p)) > 0 => refunded'[Ours(p)] > 0
    BY <2>1, <2>2, <2>3, RefundGrows
  <2>5. ASSUME NEW o \in Orders, Repays(p, o), instance[o].ran # Duration
        PROVE  refunded'[o] > 0
    <3>1. Ours(p) = o /\ Doc(p).ran = instance[o].ran /\ Doc(p).run = Never
      BY <2>5 DEF Repays, Doc
    <3>2. Paused(Doc(p)).ran = Doc(p).ran
      BY <2>2, <3>1 DEF Paused, Document
    <3>3. instance[o].ran \in 0..Duration
      BY <1>1, DocumentFields
    <3> QED
      BY <2>3, <2>4, <2>5, <3>1, <3>2, <3>3, DurationType
  <2>6. \A q \in Requests : \A o \in Orders : (q # p /\ Repays(q, o)) => Repays(q, o)'
    BY <1>2, <2>1 DEF Repays, Frame, Ours
  <2>7. ASSUME NEW o \in Orders
        PROVE  Awaited(o)'
    BY <1>2, <2>1, <2>5, <2>6 DEF RepaymentAwaited, Awaited, Frame
  <2> QED
    BY <2>7 DEF RepaymentAwaited
<1>7. CASE SaveStart(p) \/ SaveStop(p) \/ CreateForOrder(p) \/ CreateFails(p)
  <2>1. Ours(p) \in Orders /\ request[p].pc \notin {"return", "refund"}
    BY <1>7, WorkedOn DEF SaveStart, SaveStop, CreateForOrder, CreateFails
  <2>2. \/ UNCHANGED instance
        \/ \E doc \in Document :
             instance' = [instance EXCEPT ![Ours(p)] = doc] /\ doc.status # "terminated"
    <3>1. CASE SaveStart(p)
      <4> DEFINE run0 == [instance[Ours(p)] EXCEPT !.status = "running"]
      <4>1. run0 \in Document /\ run0.status = "running" /\ 0 \in 0..Duration \cup {Never}
        <5>1. instance[Ours(p)] \in Document
          BY <1>1, <2>1
        <5>2. run0 \in Document /\ run0.status = "running"
          BY <5>1, SetStatus
        <5> QED
          BY <5>2, DurationType
      <4>2. instance' = [instance EXCEPT ![Ours(p)] = [run0 EXCEPT !.run = 0]]
        BY <1>1, <2>1, <3>1 DEF SaveStart
      <4> HIDE DEF run0
      <4>3. [run0 EXCEPT !.run = 0] \in Document /\ [run0 EXCEPT !.run = 0].status = "running"
        BY <4>1, SetRun
      <4> QED
        BY <4>2, <4>3
    <3>2. CASE SaveStop(p)
      <4>1. Doc(p) \in Document /\ instance[Ours(p)] \in Document
        BY <1>1, <2>1, <3>2, WorkedOn DEF SaveStop
      <4>2. Saved(instance[Ours(p)], Doc(p), "stopped") \in Document
        BY <4>1, DocumentType
      <4>3. Saved(instance[Ours(p)], Doc(p), "stopped").status = "stopped"
        BY DEF Saved
      <4> QED
        BY <3>2, <4>2, <4>3 DEF SaveStop
    <3>3. CASE CreateForOrder(p) \/ CreateFails(p)
      <4>1. Running \in Document /\ Running.status = "running"
        BY DocumentType DEF Running
      <4> QED
        BY <3>3, <4>1 DEF CreateForOrder, CreateFails
    <3> QED
      BY <1>7, <3>1, <3>2, <3>3
  <2>3. \A o \in Orders : instance'[o].status = "terminated" => instance'[o] = instance[o]
    BY <1>1, <2>1, <2>2
  <2> QED
    BY <1>2, <2>1, <2>3, AwaitedKept DEF RepaymentAwaited
<1>8. CASE /\ ~(Dies(p) \/ SaveTerminated(p) \/ ReturnTerminated(p) \/ RefundTerminated(p))
           /\ ~(SaveStart(p) \/ SaveStop(p) \/ CreateForOrder(p) \/ CreateFails(p))
  <2>1. request[p].pc \notin {"return", "refund"} /\ UNCHANGED instance
    BY <1>8 DEF TopUp, SaveTopUp, ChargeOrder, InsufficientBalance, ChargeFails,
         Undo, UndoRefund, Refused, FindByOrder, Sweep, CheckOrder, Terminate, Start, Stop
  <2> QED
    BY <1>2, <2>1, AwaitedKept DEF RepaymentAwaited
<1> QED
  BY <1>3, <1>4, <1>5, <1>6, <1>7, <1>8

-----------------------------------------------------------------------------
(* The balance *)

\* One more charge, one more lease paid for.
LEMMA ChargesCounted ==
    ASSUME IsFiniteSet(charged), NEW o, o \notin charged, charged' = charged \cup {o}
    PROVE  /\ IsFiniteSet(charged)'
           /\ Cardinality(charged) \in Nat
           /\ Cardinality(charged)' = Cardinality(charged) + 1
<1>1. Cardinality(charged) \in Nat
  BY FS_CardinalityType
<1>2. IsFiniteSet(charged \cup {o}) /\ Cardinality(charged \cup {o}) = Cardinality(charged) + 1
  BY FS_AddElement
<1> QED
  BY <1>1, <1>2

\* A first refund of an order adds its units.
LEMMA RefundsCounted ==
    ASSUME LeasesTypeOK, IsFiniteSet(Repaid), NEW o \in Orders, NEW a \in Nat,
           refunded[o] = 0, refunded' = [refunded EXCEPT ![o] = a]
    PROVE  /\ IsFiniteSet(Repaid)'
           /\ Cardinality(Repaid) \in Nat
           /\ Cardinality(Repaid)' = Cardinality(Repaid) + a
<1> DEFINE New == {o} \X (1..a)
<1>1. refunded \in [Orders -> Nat]
  BY DEF LeasesTypeOK
<1>2. /\ refunded'[o] = a
      /\ \A u \in Orders : u # o => refunded'[u] = refunded[u]
  BY <1>1
<1>3. \A x : x \in Repaid <=> \E u \in Orders : x \in {u} \X (1..refunded[u])
  BY DEF Repaid
<1>4. \A x : x \in Repaid' <=> \E u \in Orders : x \in {u} \X (1..refunded'[u])
  BY DEF Repaid
<1>5. 1..refunded[o] = {}
  BY <1>1
<1>6. Repaid' = Repaid \cup New
  <2>1. \A x : x \in Repaid' => x \in Repaid \cup New
    BY <1>2, <1>3, <1>4
  <2>2. \A x : x \in New => x \in Repaid'
    BY <1>2, <1>4
  <2>3. ASSUME NEW x, x \in Repaid
        PROVE  x \in Repaid'
    <3>1. PICK u \in Orders : x \in {u} \X (1..refunded[u])
      BY <1>3, <2>3
    <3>2. u # o
      BY <1>5, <3>1
    <3> QED
      BY <1>2, <1>4, <3>1, <3>2
  <2> QED
    BY <2>1, <2>2, <2>3
<1>7. Repaid \cap New = {}
  <2>1. ASSUME NEW x, x \in Repaid, x \in New
        PROVE  FALSE
    <3>1. PICK u \in Orders : x \in {u} \X (1..refunded[u])
      BY <1>3, <2>1
    <3> QED
      BY <1>5, <2>1, <3>1
  <2> QED
    BY <2>1
<1>8. IsFiniteSet(New) /\ Cardinality(New) = a
  BY OwnUnits
<1> HIDE DEF New
<1>9. IsFiniteSet(Repaid \cup New)
  BY <1>8, FS_Union
<1>10. Cardinality(Repaid \cup New) = Cardinality(Repaid) + Cardinality(New) - Cardinality(Repaid \cap New)
  BY <1>8, FS_Union
<1>11. Cardinality(Repaid \cap New) = 0
  BY <1>7, FS_EmptySet
<1>12. Cardinality(Repaid) \in Nat
  BY FS_CardinalityType
<1> QED
  BY <1>6, <1>8, <1>9, <1>10, <1>11, <1>12

\* An untorn account is what its entries add up to.
Ledgered ==
    balance = scenario.opening + Amount * toppedUp - Price * Cardinality(charged)
                + Cardinality(Repaid)

\* Who does not touch the wallet keeps the ledger.
LEMMA BookedUntouched ==
    ASSUME LeasesTypeOK, Booked, UNCHANGED <<scenario, charged, refunded, balance, toppedUp>>,
           torn \subseteq torn'
    PROVE  Booked'
BY DEF Booked, BalanceIsLedger, Repaid, Price

\* A charge takes the price, of an order that was not charged yet.
LEMMA BookedCharge ==
    ASSUME LeasesTypeOK, Booked, NEW o \in Orders \ charged, Charge(o), UNCHANGED scenario,
           torn \subseteq torn'
    PROVE  Booked'
<1>1. /\ balance \in Nat /\ scenario.opening \in Nat /\ toppedUp \in Nat
      /\ Amount \in Nat /\ Price \in Nat
  BY ScenarioType, TypeParts, LeasesAssumption, DurationType DEF Price
<1>2. /\ balance >= Price /\ balance' = balance - Price /\ charged' = charged \cup {o}
      /\ UNCHANGED <<refunded, toppedUp>>
  BY DEF Charge
<1>3. /\ IsFiniteSet(charged)' /\ Cardinality(charged) \in Nat
      /\ Cardinality(charged)' = Cardinality(charged) + 1
  BY <1>2, ChargesCounted DEF Booked
<1>4. IsFiniteSet(Repaid) /\ Repaid' = Repaid /\ Cardinality(Repaid) \in Nat
  BY <1>2, FS_CardinalityType DEF Booked, Repaid
<1>5. /\ Price * (Cardinality(charged) + 1) = Price * Cardinality(charged) + Price
      /\ Price * Cardinality(charged) \in Int /\ Amount * toppedUp \in Int
  <2>1. \A n, m \in Nat : n * (m + 1) = n * m + n /\ n * m \in Int
    OBVIOUS
  <2> QED
    BY <1>1, <1>3, <2>1
<1>6. Ledgered => Ledgered'
  <2> DEFINE paid == Price * Cardinality(charged)
             topped == Amount * toppedUp
  <2>1. Price' = Price /\ (Amount * toppedUp)' = topped /\ scenario' = scenario
    BY <1>2 DEF Price
  <2>2. (Price * Cardinality(charged))' = paid + Price
    BY <1>3, <1>5, <2>1
  <2>3. paid \in Int /\ topped \in Int
    BY <1>5
  <2> HIDE DEF paid, topped
  <2>4. ASSUME balance = scenario.opening + topped - paid + Cardinality(Repaid)
        PROVE  balance' = scenario'.opening + topped - (paid + Price) + Cardinality(Repaid)'
    BY <1>1, <1>2, <1>4, <2>1, <2>3, <2>4
  <2> QED
    BY <2>1, <2>2, <2>4 DEF Ledgered, paid, topped
<1> QED
  BY <1>1, <1>2, <1>3, <1>4, <1>6 DEF Booked, BalanceIsLedger, Ledgered

\* A refund gives what its entry says.
LEMMA BookedRefund ==
    ASSUME LeasesTypeOK, Booked, NEW o \in Orders, NEW a \in Int, RefundUnused(o, a),
           UNCHANGED scenario, torn \subseteq torn'
    PROVE  Booked'
<1>1. /\ balance \in Nat /\ scenario.opening \in Nat /\ toppedUp \in Nat
      /\ Amount \in Nat /\ Price \in Nat /\ refunded \in [Orders -> Nat]
  BY ScenarioType, TypeParts, LeasesAssumption, DurationType DEF Price
<1>2. CASE ~(a > 0 /\ refunded[o] = 0)
  BY <1>2, BookedUntouched DEF RefundUnused, wallet
<1>3. CASE a > 0 /\ refunded[o] = 0
  <2>1. /\ balance' = balance + a /\ refunded' = [refunded EXCEPT ![o] = a] /\ a \in Nat
        /\ UNCHANGED <<charged, toppedUp>>
    BY <1>1, <1>3 DEF RefundUnused
  <2>2. /\ IsFiniteSet(Repaid)' /\ Cardinality(Repaid) \in Nat
        /\ Cardinality(Repaid)' = Cardinality(Repaid) + a
    BY <1>3, <2>1, RefundsCounted DEF Booked
  <2>3. IsFiniteSet(charged) /\ IsFiniteSet(charged)' /\ Cardinality(charged) \in Nat
    BY <2>1, FS_CardinalityType DEF Booked
  <2>4. Ledgered => Ledgered'
    <3> DEFINE rest == scenario.opening + Amount * toppedUp - Price * Cardinality(charged)
    <3>1. rest \in Int
      BY <1>1, <2>3
    <3>2. rest' = rest
      BY <2>1 DEF Price
    <3> HIDE DEF rest
    <3>3. balance = rest + Cardinality(Repaid) => balance' = rest' + Cardinality(Repaid)'
      BY <1>1, <2>1, <2>2, <3>1, <3>2
    <3> QED
      BY <3>3 DEF Ledgered, rest
  <2> QED
    BY <1>1, <2>1, <2>2, <2>3, <2>4 DEF Booked, BalanceIsLedger, Ledgered
<1> QED
  BY <1>2, <1>3

\* A top-up gives Amount, unless it saves over another write.
LEMMA BookedTopUp ==
    ASSUME LeasesTypeOK, Booked, NEW p \in Requests, SaveTopUp(p)
    PROVE  Booked'
<1>1. /\ balance \in Nat /\ scenario.opening \in Nat /\ toppedUp \in Nat
      /\ Amount \in Nat /\ Price \in Nat /\ work \in [Requests -> WorkType]
  BY ScenarioType, TypeParts, LeasesAssumption, DurationType DEF Price
<1>2. /\ work[p].seen \in Nat /\ balance' = work[p].seen + Amount /\ toppedUp' = toppedUp + 1
      /\ UNCHANGED <<scenario, charged, refunded>>
  BY <1>1 DEF SaveTopUp, WorkType, lockState
<1>3. /\ IsFiniteSet(charged)' /\ IsFiniteSet(Repaid)'
      /\ Cardinality(charged) \in Nat /\ Cardinality(Repaid) \in Nat
      /\ Repaid' = Repaid
  BY <1>2, FS_CardinalityType DEF Booked, Repaid
<1>4. CASE balance # work[p].seen
  BY <1>1, <1>2, <1>3, <1>4 DEF SaveTopUp, Booked, BalanceIsLedger
<1>5. CASE balance = work[p].seen
  <2>1. torn' = torn
    BY <1>5 DEF SaveTopUp
  <2>2. Ledgered => Ledgered'
    <3> DEFINE rest == scenario.opening - Price * Cardinality(charged)
               topped == Amount * toppedUp
    <3>1. /\ rest \in Int /\ topped \in Int /\ (Amount * toppedUp)' = topped + Amount
          /\ scenario.opening + topped - Price * Cardinality(charged) = rest + topped
          /\ (scenario.opening + Amount * toppedUp - Price * Cardinality(charged))' = rest + (Amount * toppedUp)'
      <4>1. Price * Cardinality(charged) \in Int /\ topped \in Int
        BY <1>1, <1>3
      <4>2. Amount * (toppedUp + 1) = Amount * toppedUp + Amount
        BY <1>1
      <4>3. (Price * Cardinality(charged))' = Price * Cardinality(charged)
        BY <1>2 DEF Price
      <4>4. Amount' = Amount /\ (Amount * toppedUp)' = Amount * (toppedUp + 1)
        BY <1>2
      <4> QED
        BY <1>1, <1>2, <4>1, <4>2, <4>3, <4>4
    <3> HIDE DEF rest, topped
    <3>2. balance = rest + topped + Cardinality(Repaid) =>
            balance' = rest + (topped + Amount) + Cardinality(Repaid)'
      BY <1>1, <1>2, <1>3, <1>5, <3>1
    <3> QED
      BY <1>3, <3>1, <3>2 DEF Ledgered, topped
  <2> QED
    BY <1>1, <1>2, <1>3, <2>1, <2>2 DEF Booked, BalanceIsLedger, Ledgered
<1> QED
  BY <1>4, <1>5

\* Every step of the saga keeps the ledger.
LEMMA BookedSaga ==
    ASSUME LeasesTypeOK, OrdersOwned, Paying, Booked, NEW p \in Requests,
           SagaStep(p) \/ Dies(p)
    PROVE  Booked'
<1> USE DEF SagaStep
<1>1. torn \subseteq torn'
  BY SagaFrame DEF Frame
<1>2. UNCHANGED scenario
  BY DEF TopUp, SaveTopUp, ChargeOrder, InsufficientBalance, ChargeFails, CreateForOrder,
         CreateFails, Undo, UndoRefund, Refused, FindByOrder, Sweep, SaveTerminated,
         ReturnTerminated, RefundTerminated, CheckOrder, SaveStart, SaveStop, Dies,
         Terminate, Start, Stop, lockState
<1>3. CASE SaveTopUp(p)
  BY <1>3, BookedTopUp
<1>4. CASE ChargeOrder(p) \/ ChargeFails(p)
  <2>1. request[p].pc = "booked" /\ (Charge(Ours(p)) \/ UNCHANGED wallet)
    BY <1>4 DEF ChargeOrder, ChargeFails
  <2>2. Ours(p) \in Orders \ charged
    BY <2>1 DEF OrdersOwned, Creating
  <2> QED
    BY <1>1, <1>2, <2>1, <2>2, BookedCharge, BookedUntouched DEF wallet
<1>5. CASE UndoRefund(p) \/ RefundTerminated(p)
  <2>1. PICK o \in Orders, a \in Int : RefundUnused(o, a)
    BY <1>5, WorkedOn, UnusedType, DurationType DEF UndoRefund, RefundTerminated, Price
  <2> QED
    BY <1>1, <1>2, <2>1, BookedRefund
<1>6. CASE ~(SaveTopUp(p) \/ ChargeOrder(p) \/ ChargeFails(p) \/ UndoRefund(p) \/ RefundTerminated(p))
  <2>1. UNCHANGED wallet
    BY <1>6 DEF TopUp, InsufficientBalance, CreateForOrder, CreateFails, Undo, Refused,
         FindByOrder, Sweep, SaveTerminated, ReturnTerminated, CheckOrder, SaveStart, SaveStop,
         Dies, Terminate, Start, Stop
  <2> QED
    BY <1>1, <1>2, <2>1, BookedUntouched DEF wallet
<1> QED
  BY <1>3, <1>4, <1>5, <1>6

-----------------------------------------------------------------------------
(* One instance of every order *)

\* What is aside of the saga creates no instance and reads none.
LEMMA ProvisionedAside ==
    ASSUME LeasesTypeOK, OrdersOwned, Paying, Provisioned, Aside \/ LeasesTick
    PROVE  Provisioned'
<1>1. instance \in [Orders -> Document] /\ work \in [Requests -> WorkType]
  BY TypeParts
<1>2. \A p \in Requests : DOMAIN work[p].docs \subseteq Orders
  BY WorkTypes
<1>3. /\ UNCHANGED work
      /\ \A o \in Orders : instance'[o].status = instance[o].status
  <2>1. CASE Aside
    BY <2>1 DEF Aside
  <2>2. CASE LeasesTick
    BY <1>1, <2>2, DocumentType DEF LeasesTick
  <2> QED
    BY <2>1, <2>2
<1>4. \A p \in Requests :
        request'[p].pc \in {"provision", "start", "saveStart", "saveStop"} => request'[p] = request[p]
  <2>1. CASE Aside
    <3>1. {"provision", "start", "saveStart", "saveStop"} \cap ReservationSteps = {}
      BY DEF ReservationSteps, Section
    <3> QED
      BY <2>1, <3>1 DEF Aside
  <2>2. CASE LeasesTick
    BY <2>2 DEF LeasesTick
  <2> QED
    BY <2>1, <2>2
<1>5. \A p \in Requests : request[p].pc = "provision" => Ours(p) \in Orders
  BY WorkedOn
<1> QED
  BY <1>2, <1>3, <1>4, <1>5 DEF Provisioned, Ours, Doc

\* What the moving handler has to show for Provisioned.
LEMMA ProvisionedKept ==
    ASSUME LeasesTypeOK, OrdersOwned, Paying, Provisioned, NEW p \in Requests, Frame(p),
           \A o \in Orders : instance[o].status # "none" => instance'[o].status # "none",
           \A o \in Orders : (instance[o].status = "none" /\ instance'[o].status # "none") =>
               (request[p].pc = "provision" /\ o = Ours(p)),
           request'[p].pc = "provision" =>
             /\ Ours(p)' \in Orders /\ instance'[Ours(p)'].status = "none"
             /\ \A q \in Requests : (q # p /\ request[q].pc = "provision") => Ours(q) # Ours(p)',
           \A o \in DOMAIN work'[p].docs : o \in Orders /\ instance'[o].status # "none",
           request'[p].pc \in {"start", "saveStart"} => Doc(p)'.status = "stopped",
           request'[p].pc = "saveStop" => Doc(p)'.status = "running"
    PROVE  Provisioned'
<1>1. \A q \in Requests : q # p => /\ request'[q] = request[q] /\ work'[q] = work[q]
                                  /\ Ours(q)' = Ours(q) /\ Doc(q)' = Doc(q)
  BY DEF Frame, Ours, Doc
<1>2. \A q \in Requests : request[q].pc = "provision" => Ours(q) \in Orders
  BY WorkedOn
<1>3. \A q \in Requests : DOMAIN work[q].docs \subseteq Orders
  BY WorkTypes
<1>4. \A q \in Requests : request'[q].pc = "provision" => instance'[Ours(q)'].status = "none"
  BY <1>1, <1>2 DEF Provisioned
<1>5. \A q1, q2 \in Requests :
        (request'[q1].pc = "provision" /\ request'[q2].pc = "provision" /\ Ours(q1)' = Ours(q2)') => q1 = q2
  BY <1>1 DEF Provisioned
<1>6. \A q \in Requests : \A o \in DOMAIN work'[q].docs : instance'[o].status # "none"
  BY <1>1, <1>3 DEF Provisioned
<1>7. \A q \in Requests :
        /\ request'[q].pc \in {"start", "saveStart"} => Doc(q)'.status = "stopped"
        /\ request'[q].pc = "saveStop" => Doc(q)'.status = "running"
  BY <1>1 DEF Provisioned
<1> QED
  BY <1>4, <1>5, <1>6, <1>7 DEF Provisioned

\* A step writes one document, and "none" is never written.
LEMMA InstanceSteps ==
    ASSUME LeasesTypeOK, OrdersOwned, Paying, Provisioned, NEW p \in Requests,
           SagaStep(p) \/ Dies(p)
    PROVE  /\ \A o \in Orders : instance[o].status # "none" => instance'[o].status # "none"
           /\ \A o \in Orders : (instance[o].status = "none" /\ instance'[o].status # "none") =>
                (request[p].pc = "provision" /\ o = Ours(p))
           /\ \A o \in Orders :
                instance[o].status = "terminated" =>
                    (instance'[o].status = "terminated" \/ "instance" \in torn')
<1> USE DEF SagaStep
<1>1. instance \in [Orders -> Document] /\ work \in [Requests -> WorkType]
  BY TypeParts
<1>2. CASE UNCHANGED instance
  BY <1>2
<1>3. CASE CreateForOrder(p) \/ CreateFails(p)
  <2>1. request[p].pc = "provision" /\ Ours(p) \in Orders
    BY <1>3, WorkedOn DEF CreateForOrder, CreateFails
  <2>2. instance[Ours(p)].status = "none"
    BY <2>1 DEF Provisioned
  <2>3. UNCHANGED instance \/ instance' = [instance EXCEPT ![Ours(p)] = Running]
    BY <1>3 DEF CreateForOrder, CreateFails
  <2> QED
    BY <1>1, <2>1, <2>2, <2>3 DEF Running
<1>4. ASSUME NEW o \in Orders, NEW doc, doc.status # "none", instance[o].status # "none",
             instance' = [instance EXCEPT ![o] = doc],
             instance[o].status = "terminated" => (doc.status = "terminated" \/ "instance" \in torn')
      PROVE  /\ \A u \in Orders : instance[u].status # "none" => instance'[u].status # "none"
             /\ \A u \in Orders : (instance[u].status = "none" /\ instance'[u].status # "none") =>
                  (request[p].pc = "provision" /\ u = Ours(p))
             /\ \A u \in Orders :
                  instance[u].status = "terminated" =>
                      (instance'[u].status = "terminated" \/ "instance" \in torn')
  BY <1>1, <1>4
<1>5. CASE SaveTerminated(p)
  <2>1. PICK o \in DOMAIN work[p].docs : SaveTerminated(p)!2!(o)
    BY <1>5 DEF SaveTerminated
  <2>2. o \in Orders /\ instance[o].status # "none"
    BY WorkTypes DEF Provisioned
  <2>3. UNCHANGED instance \/ instance' = [instance EXCEPT ![o] = Saved(instance[o], work[p].docs[o], "terminated")]
    BY <2>1
  <2>4. Saved(instance[o], work[p].docs[o], "terminated").status = "terminated"
    BY DEF Saved
  <2> QED
    BY <1>2, <1>4, <2>2, <2>3, <2>4
<1>6. CASE SaveStop(p)
  <2>1. /\ request[p].pc = "saveStop"
        /\ instance' = [instance EXCEPT ![Ours(p)] = Saved(instance[Ours(p)], Doc(p), "stopped")]
        /\ Overwrites(Ours(p), Doc(p))
    BY <1>1, <1>6, WorkedOn DEF SaveStop
  <2>2. Ours(p) \in Orders /\ instance[Ours(p)].status # "none" /\ Doc(p).status = "running"
    BY <2>1, WorkedOn DEF Provisioned
  <2>3. Saved(instance[Ours(p)], Doc(p), "stopped").status = "stopped"
    BY DEF Saved
  <2>4. instance[Ours(p)].status = "terminated" => "instance" \in torn'
    BY <2>1, <2>2 DEF Overwrites
  <2> QED
    BY <1>4, <2>1, <2>2, <2>3, <2>4
<1>7. CASE SaveStart(p)
  <2>1. request[p].pc = "saveStart" /\ Overwrites(Ours(p), Doc(p))
    BY <1>7 DEF SaveStart
  <2>2. /\ Ours(p) \in Orders /\ instance[Ours(p)].status # "none" /\ Doc(p).status = "stopped"
    BY <2>1, WorkedOn DEF Provisioned
  <2> DEFINE doc == [instance[Ours(p)] EXCEPT !.status = "running", !.run = 0]
  <2>3. instance' = [instance EXCEPT ![Ours(p)] = doc]
    BY <1>1, <1>7, <2>2 DEF SaveStart
  <2>4. doc.status = "running"
    BY <1>1, <2>2 DEF Document
  <2>5. instance[Ours(p)].status = "terminated" => "instance" \in torn'
    BY <2>1, <2>2 DEF Overwrites
  <2> HIDE DEF doc
  <2> QED
    BY <1>4, <2>2, <2>3, <2>4, <2>5
<1> QED
  BY <1>2, <1>3, <1>5, <1>6, <1>7
     DEF TopUp, SaveTopUp, ChargeOrder, InsufficientBalance, ChargeFails,
         Undo, UndoRefund, Refused, FindByOrder, Sweep, ReturnTerminated, RefundTerminated,
         CheckOrder, Dies, Terminate, Start, Stop

\* An instance is created once, by who was charged for it.
LEMMA ProvisionedSaga ==
    ASSUME LeasesTypeOK, OrdersOwned, Paying, Provisioned, NEW p \in Requests,
           SagaStep(p) \/ Dies(p)
    PROVE  Provisioned'
<1> USE DEF SagaStep
<1>1. /\ request \in [Requests -> RequestType] /\ work \in [Requests -> WorkType]
      /\ instance \in [Orders -> Document]
  BY TypeParts DEF ReservationType
<1>2. Frame(p)
  BY SagaFrame
<1>3. /\ \A o \in Orders : instance[o].status # "none" => instance'[o].status # "none"
      /\ \A o \in Orders : (instance[o].status = "none" /\ instance'[o].status # "none") =>
            (request[p].pc = "provision" /\ o = Ours(p))
  BY InstanceSteps
<1>4. \A o \in DOMAIN work[p].docs : o \in Orders /\ instance'[o].status # "none"
  BY <1>3, WorkTypes DEF Provisioned
<1>5. ASSUME \A o \in DOMAIN work'[p].docs : o \in Orders /\ instance'[o].status # "none",
             request'[p].pc \notin {"provision", "start", "saveStart", "saveStop"}
      PROVE  Provisioned'
  BY <1>2, <1>3, <1>5, ProvisionedKept
<1>6. ASSUME NEW pc, Goto(p, pc)
      PROVE  request'[p].pc = pc /\ Ours(p)' = Ours(p)
  BY <1>6, Stepping DEF Ours
<1>7. CASE Finish(p)
  <2>1. request'[p].pc = "idle" /\ DOMAIN work'[p].docs = {}
    BY <1>1, <1>7 DEF Finish, Idle, NoWork
  <2> QED
    BY <1>5, <2>1
<1>8. ASSUME NEW pc \in {"undo", "undoFind", "undoRefund", "refused", "refund"}, Move(p, pc)
      PROVE  Provisioned'
  BY <1>4, <1>5, <1>6, <1>8 DEF Move
<1>9. \A O \in SUBSET Orders : \A b \in BOOLEAN : Reads(p, O, b) => DOMAIN work'[p].docs = O
  BY <1>1 DEF Reads, WorkType
<1>10. CASE TopUp(p)
  <2>1. request'[p].pc = "topUp" /\ work'[p].docs = work[p].docs
    BY <1>1, <1>6, <1>10 DEF TopUp, WorkType
  <2> QED
    BY <1>4, <1>5, <2>1
<1>11. CASE ChargeOrder(p)
  <2>1. request[p].pc = "booked" /\ Goto(p, "provision") /\ UNCHANGED instance
        /\ work' = [work EXCEPT ![p].charged = TRUE]
    BY <1>11 DEF ChargeOrder
  <2>2. Ours(p) \in Orders \ charged
    BY <2>1 DEF OrdersOwned, Creating
  <2>3. instance[Ours(p)].status = "none"
    BY <2>2 DEF Paying
  <2>4. \A q \in Requests : request[q].pc = "provision" => Ours(q) \in charged
    BY DEF Paying, WorkPaid
  <2>5. work'[p].docs = work[p].docs
    BY <1>1, <2>1 DEF WorkType
  <2> QED
    BY <1>2, <1>3, <1>4, <1>6, <2>1, <2>2, <2>3, <2>4, <2>5, ProvisionedKept
<1>12. CASE FindByOrder(p)
  <2>1. Ours(p) \in Orders
    BY <1>12, WorkedOn DEF FindByOrder
  <2>2. CASE instance[Ours(p)].status # "none"
    <3>1. Goto(p, "terminate") /\ Reads(p, {Ours(p)}, FALSE)
      BY <1>12, <2>2 DEF FindByOrder
    <3>2. {Ours(p)} \in SUBSET Orders
      BY <2>1
    <3>3. DOMAIN work'[p].docs = {Ours(p)}
      BY <1>9, <3>1, <3>2
    <3>4. request'[p].pc = "terminate"
      BY <1>6, <3>1
    <3>5. \A o \in {Ours(p)} : o \in Orders /\ instance'[o].status # "none"
      BY <1>3, <2>1, <2>2
    <3>6. \A o \in DOMAIN work'[p].docs : o \in Orders /\ instance'[o].status # "none"
      BY <3>3, <3>5
    <3> QED
      BY <1>5, <3>4, <3>6
  <2>3. CASE instance[Ours(p)].status = "none"
    <3>1. Finish(p) \/ Move(p, "undoRefund") \/ Move(p, "refused")
      BY <1>12, <2>3 DEF FindByOrder
    <3> QED
      BY <1>7, <1>8, <3>1
  <2> QED
    BY <2>2, <2>3
<1>13. CASE Sweep(p)
  <2>1. Goto(p, "terminate") /\ Reads(p, Expired, FALSE) /\ Expired \in SUBSET Orders
        /\ \A o \in Expired : instance[o].status # "none"
    BY <1>13 DEF Sweep, Expired
  <2>2. request'[p].pc = "terminate" /\ DOMAIN work'[p].docs = Expired
    BY <1>6, <1>9, <2>1
  <2>3. \A o \in DOMAIN work'[p].docs : o \in Orders /\ instance'[o].status # "none"
    BY <1>3, <2>1, <2>2
  <2> QED
    BY <1>5, <2>2, <2>3
<1>14. ASSUME NEW o \in Orders, Terminate(p, o)
       PROVE  Provisioned'
  <2>1. Reads(p, {o}, TRUE) /\ instance[o].status # "none" /\ request'[p].pc = "terminate"
    BY <1>1, <1>14 DEF Terminate, RequestType
  <2>2. {o} \in SUBSET Orders
    BY <1>14
  <2>3. DOMAIN work'[p].docs = {o}
    BY <1>9, <2>1, <2>2
  <2>4. \A u \in DOMAIN work'[p].docs : u \in Orders /\ instance'[u].status # "none"
    BY <1>3, <2>1, <2>3
  <2> QED
    BY <1>5, <2>1, <2>4
<1>15. CASE SaveTerminated(p)
  <2>1. PICK o \in DOMAIN work[p].docs : SaveTerminated(p)!2!(o)
    BY <1>15 DEF SaveTerminated
  <2>2. request'[p].pc \in {"return", "refund"}
    BY <1>1, <2>1 DEF RequestType
  <2>3. DOMAIN work'[p].docs = DOMAIN work[p].docs
    BY <1>1, <2>1 DEF WorkType
  <2> QED
    BY <1>4, <1>5, <2>2, <2>3
<1>16. CASE RefundTerminated(p)
  <2> DEFINE rest == DOMAIN work[p].docs \ {Ours(p)}
  <2>1. CASE rest # {}
    <3>1. Goto(p, "terminate") /\ work' = [work EXCEPT ![p].docs = Restrict(@, rest)]
      BY <1>16, <2>1 DEF RefundTerminated
    <3>2. DOMAIN work'[p].docs = rest
      BY <1>1, <3>1 DEF WorkType, Restrict
    <3>3. request'[p].pc = "terminate"
      BY <1>6, <3>1
    <3>4. \A o \in DOMAIN work'[p].docs : o \in Orders /\ instance'[o].status # "none"
      BY <1>4, <3>2
    <3> QED
      BY <1>5, <3>3, <3>4
  <2>2. CASE rest = {}
    BY <1>7, <1>8, <1>16, <2>2 DEF RefundTerminated
  <2> QED
    BY <2>1, <2>2
<1>17. CASE CheckOrder(p)
  <2>1. CASE Move(p, "saveStart")
    <3>1. Doc(p)' = Doc(p) /\ Doc(p).status = "stopped" /\ request'[p].pc = "saveStart" /\ UNCHANGED work
      BY <1>6, <1>17, <2>1 DEF Move, CheckOrder, Doc, Provisioned
    <3> QED
      BY <1>2, <1>3, <1>4, <3>1, ProvisionedKept
  <2> QED
    BY <1>7, <1>17, <2>1 DEF CheckOrder
<1>18. ASSUME NEW o \in Orders, Start(p, o) \/ Stop(p, o)
       PROVE  Provisioned'
  <2>1. /\ Reads(p, {o}, FALSE) /\ instance[o].status # "none" /\ UNCHANGED instance
    BY <1>18 DEF Start, Stop
  <2>2. DOMAIN work'[p].docs = {o} /\ work'[p].docs[o] = instance[o]
    BY <1>1, <2>1 DEF Reads, WorkType
  <2>3. CASE Start(p, o)
    <3> DEFINE pc == IF order[o].left = 0 THEN "terminate" ELSE "start"
    <3>1. request' = [request EXCEPT ![p] = [request[p] EXCEPT !.order = o, !.pc = pc]]
      BY <1>1, <2>3 DEF Start
    <3>2. Ours(p)' = o /\ request'[p].pc \in {"terminate", "start"}
      BY <1>1, <3>1 DEF Ours, RequestType
    <3>3. Doc(p)'.status = "stopped"
      BY <2>2, <2>3, <3>2 DEF Start, Doc
    <3> QED
      BY <1>2, <1>3, <2>1, <2>2, <3>2, <3>3, ProvisionedKept
  <2>4. CASE Stop(p, o)
    <3>1. request' = [request EXCEPT ![p] = [request[p] EXCEPT !.order = o, !.pc = "saveStop"]]
      BY <1>1, <2>4 DEF Stop
    <3>2. Ours(p)' = o /\ request'[p].pc = "saveStop"
      BY <1>1, <3>1 DEF Ours, RequestType
    <3>3. Doc(p)'.status = "running"
      BY <2>2, <2>4, <3>2 DEF Stop, Doc
    <3> QED
      BY <1>2, <1>3, <2>1, <2>2, <3>2, <3>3, ProvisionedKept
  <2> QED
    BY <1>18, <2>3, <2>4
<1>19. Dies(p) => Finish(p)
  BY DEF Dies, Crash, Finish
<1> QED
  BY <1>7, <1>8, <1>10, <1>11, <1>12, <1>13, <1>14, <1>15, <1>16, <1>17, <1>18, <1>19
     DEF SaveTopUp, InsufficientBalance, ChargeFails, CreateForOrder, CreateFails, Undo, UndoRefund,
         Refused, ReturnTerminated, SaveStart, SaveStop

-----------------------------------------------------------------------------
(* Every step of the reference API *)

\* Whose step it is.
LEMMA LeasesSteps ==
    ASSUME LeasesNext
    PROVE  \/ Reservation \/ Expiry \/ \E p \in Requests : Booking(p)
           \/ LeasesTick
           \/ \E p \in Requests : SagaStep(p) \/ Dies(p)
BY LeasesAssumption, Zenon DEF LeasesNext, Handlers, Proceed, SagaStep

\* Reservations keep what the lock is for, and leave new orders to their own.
LEMMA ReservationLocking ==
    ASSUME LeasesTypeOK, Locking, OrdersOwned,
           Reservation \/ Expiry \/ \E p \in Requests : Booking(p)
    PROVE  Locking' /\ OrdersOwned'
<1>1. UNCHANGED charged
  BY DEF Reservation, Expiry, Booking, wallet
<1>2. CASE Outside
  BY <1>1, <1>2, OutsideLocking, OutsideOrders DEF Charges
<1>3. ASSUME NEW p \in Requests, NEW r \in Resources,
             \/ \E o \in Orders : Book(p, r, o)
             \/ \E to \in Targets : SetListingStatus(p, r, to)
      PROVE  Locking' /\ OrdersOwned'
  <2>1. Locking'
    BY <1>3, AcquireLocking DEF Book, SetListingStatus
  <2>2. OrdersOwned'
    BY <1>1, <1>3, BookOrders
  <2> QED
    BY <2>1, <2>2
<1>4. ASSUME NEW p \in Requests, NEW o \in Orders, ReturnOrder(p, o) \/ CancelOrder(p, o)
      PROVE  Outside
  BY <1>4, EnvironmentOutside
<1>5. ASSUME NEW p \in Requests, ReleaseFails(p)
      PROVE  Locking' /\ OrdersOwned'
  BY <1>1, <1>5, ReleaseFailsLocking, SectionOrders
<1>6. ASSUME NEW r \in Resources, Lapse(r)
      PROVE  Locking' /\ OrdersOwned'
  BY <1>1, <1>6, LapseLocking, LapseOrders DEF Lapse
<1>7. ASSUME NEW p \in Requests, InTheSection(p)
      PROVE  Locking' /\ OrdersOwned'
  BY <1>1, <1>7, SectionLocking, SectionOrders
<1>8. ASSUME NEW p \in Requests, Answer(p)
      PROVE  Outside
  BY <1>8, EnvironmentOutside
<1>9. ASSUME ExpireDueOrders
      PROVE  Outside
  BY <1>9, EnvironmentOutside
<1>10. Handlers \subseteq Requests
  BY DEF Handlers
<1>11. CASE Reservation
  BY <1>2, <1>3, <1>4, <1>5, <1>6, <1>10, <1>11 DEF Reservation
<1>12. CASE Expiry
  BY <1>2, <1>9, <1>12 DEF Expiry
<1>13. CASE \E p \in Requests : Booking(p)
  BY <1>2, <1>7, <1>8, <1>13 DEF Booking
<1> QED
  BY <1>11, <1>12, <1>13

\* The invariant holds in the beginning,
LEMMA LeasesInitInv == LeasesInit => LeasesInv
<1> SUFFICES ASSUME LeasesInit PROVE LeasesInv
  OBVIOUS
<1>1. /\ \A p \in Requests : request[p] = Idle /\ work[p] = NoWork
      /\ \A o \in Orders : order[o] = Unborn /\ instance[o] = NoDocument /\ refunded[o] = 0
      /\ charged = {} /\ toppedUp = 0 /\ balance = scenario.opening
  BY DEF LeasesInit, BookingsInit
<1>2. LeasesTypeOK
  BY TypeInit
<1>3. Locking
  BY <1>1 DEF Locking, SectionHeld, StillSo, ActiveOrderIsListed, OrdersPlaced, OneActiveOrder,
              Idle, Unborn, Section
<1>4. OrdersOwned
  BY <1>1 DEF OrdersOwned, Creating, Idle, Section
<1>5. \A p \in Requests : DOMAIN work[p].docs = {} /\ work[p].charged = FALSE
  <2>1. DOMAIN NoWork.docs = {} /\ NoWork.charged = FALSE
    BY DEF NoWork
  <2> QED
    BY <1>1, <2>1
<1>6. Paying
  BY <1>1, <1>5 DEF Paying, WorkPaid, RefundFollowsCharge, RefusedIsRepaid, Idle, NoDocument
<1>7. Provisioned
  BY <1>1, <1>5 DEF Provisioned, Idle
<1>8. RepaymentAwaited
  BY <1>1 DEF RepaymentAwaited, Awaited, NoDocument
<1>9. Booked
  <2>1. Repaid = {}
    BY <1>1 DEF Repaid
  <2>2. IsFiniteSet({}) /\ Cardinality({}) = 0
    BY FS_EmptySet
  <2>3. scenario.opening \in Nat
    BY <1>2, ScenarioType, TypeParts
  <2>4. Price * 0 = 0 /\ Amount * 0 = 0 /\ Amount \in Nat
    BY DurationType, LeasesAssumption DEF Price
  <2> QED
    BY <1>1, <2>1, <2>2, <2>3, <2>4 DEF Booked, BalanceIsLedger
<1> QED
  BY <1>2, <1>3, <1>4, <1>6, <1>7, <1>8, <1>9 DEF LeasesInv

\* every step keeps it,
LEMMA LeasesNextInv == LeasesInv /\ [LeasesNext]_leasesVars => LeasesInv'
<1> SUFFICES ASSUME LeasesInv, [LeasesNext]_leasesVars PROVE LeasesInv'
  OBVIOUS
<1>1. LeasesTypeOK /\ Locking /\ OrdersOwned /\ Paying /\ Provisioned /\ RepaymentAwaited /\ Booked
  BY DEF LeasesInv
<1>2. CASE Reservation \/ Expiry \/ \E p \in Requests : Booking(p)
  <2>1. LeasesTypeOK'
    BY <1>1, <1>2, TypeReservation DEF Locking
  <2>2. Locking' /\ OrdersOwned'
    BY <1>1, <1>2, ReservationLocking
  <2>3. Aside
    BY <1>1, <1>2, ReservationAside
  <2>4. Paying' /\ RepaymentAwaited' /\ Booked' /\ Provisioned'
    BY <1>1, <2>3, AsideKeeps, ProvisionedAside
  <2> QED
    BY <2>1, <2>2, <2>4 DEF LeasesInv
<1>3. CASE LeasesTick
  <2>1. LeasesTypeOK'
    BY <1>1, <1>3, TypeEnvironment
  <2>2. Outside /\ Charges
    BY <1>1, <1>3, EnvironmentOutside DEF Charges, LeasesTick, wallet
  <2>3. Locking' /\ OrdersOwned'
    BY <1>1, <2>2, OutsideLocking, OutsideOrders
  <2>4. Paying' /\ RepaymentAwaited' /\ Booked' /\ Provisioned'
    BY <1>1, <1>3, TickKeeps, ProvisionedAside
  <2> QED
    BY <2>1, <2>3, <2>4 DEF LeasesInv
<1>4. ASSUME NEW p \in Requests, SagaStep(p) \/ Dies(p)
      PROVE  LeasesInv'
  <2>1. LeasesTypeOK'
    BY <1>1, <1>4, TypeSaga, TypeEnvironment
  <2>2. Outside /\ Charges
    BY <1>1, <1>4, SagaOutside, EnvironmentOutside DEF Charges, Dies, wallet
  <2>3. Locking' /\ OrdersOwned'
    BY <1>1, <2>2, OutsideLocking, OutsideOrders
  <2>4. Paying' /\ RepaymentAwaited' /\ Booked' /\ Provisioned'
    BY <1>1, <1>4, PayingSaga, AwaitedSaga, BookedSaga, ProvisionedSaga
  <2> QED
    BY <2>1, <2>3, <2>4 DEF LeasesInv
<1>5. CASE UNCHANGED leasesVars
  <2>1. LeasesTypeOK'
    BY <1>1, <1>5, TypeParts DEF leasesVars, LeasesTypeOK
  <2>2. Aside
    BY <1>5 DEF leasesVars, Aside, wallet
  <2>3. Paying' /\ RepaymentAwaited' /\ Booked' /\ Provisioned'
    BY <1>1, <2>2, AsideKeeps, ProvisionedAside
  <2>4. Outside /\ Charges
    BY <1>5 DEF leasesVars, Outside, Charges
  <2>5. Locking' /\ OrdersOwned'
    BY <1>1, <2>4, OutsideLocking, OutsideOrders
  <2> QED
    BY <2>1, <2>3, <2>5 DEF LeasesInv
<1> QED
  BY <1>2, <1>3, <1>4, <1>5, LeasesSteps

\* and it holds for ever.
LEMMA LeasesInvHolds == LeasesSpec => []LeasesInv
BY LeasesInitInv, LeasesNextInv, PTL DEF LeasesSpec

-----------------------------------------------------------------------------
(* The theorems about the reference API *)

\* Documents, requests and the wallet have their types: with Mongoose's min: 0,
\* the balance is a natural number.
THEOREM LeasesTypeCorrect == LeasesSpec => []LeasesTypeOK
<1>1. LeasesInv => LeasesTypeOK
  BY DEF LeasesInv
<1> QED
  BY <1>1, LeasesInvHolds, PTL

\* Of two handlers in a section of one resource, one has outlived its lock: the
\* release script deletes a key only with the token of the request.
THEOREM LockExcludes == LeasesSpec => []SectionIsExclusive
<1>1. LeasesInv => SectionIsExclusive
  BY DEF LeasesInv, Locking, SectionHeld, SectionIsExclusive, InSection
<1> QED
  BY <1>1, LeasesInvHolds, PTL

\* setListingStatus takes no resource with an active order offline and create
\* books none that is offline, unless a lock lapsed in a section there.
THEOREM ActiveIsListed == LeasesSpec => []ActiveOrderIsListed
<1>1. LeasesInv => ActiveOrderIsListed
  BY DEF LeasesInv, Locking
<1> QED
  BY <1>1, LeasesInvHolds, PTL

\* one_active_order_per_gpu: whatever lapses, a resource has one active order.
THEOREM ResourceRentedOnce == LeasesSpec => []OneActiveOrder
<1>1. LeasesInv => OneActiveOrder
  BY DEF LeasesInv, Locking
<1> QED
  BY <1>1, LeasesInvHolds, PTL

\* refundUnused repays an order only if it was charged, and no more than that.
THEOREM RefundOfCharge == LeasesSpec => []RefundFollowsCharge
<1>1. LeasesInv => RefundFollowsCharge
  BY DEF LeasesInv, Paying
<1> QED
  BY <1>1, LeasesInvHolds, PTL

\* The compensation of create has repaid the charge before create answers.
THEOREM RefusalRepays == LeasesSpec => []RefusedIsRepaid
<1>1. LeasesInv => RefusedIsRepaid
  BY DEF LeasesInv, Paying
<1> QED
  BY <1>1, LeasesInvHolds, PTL

\* terminateDocument leaves nothing unused behind, unless a handler failed or a
\* save undid another one.
THEOREM UnusedIsRepaid == LeasesSpec => []UnusedComesBack
<1>1. LeasesInv => UnusedComesBack
  BY DEF LeasesInv, RepaymentAwaited, Awaited, Repays, UnusedComesBack
<1> QED
  BY <1>1, LeasesInvHolds, PTL

\* The balance of CloudAccountsService is what its entries add up to.
THEOREM BalanceMatchesEntries == LeasesSpec => []BalanceIsLedger
<1>1. LeasesInv => BalanceIsLedger
  BY DEF LeasesInv, Booked
<1> QED
  BY <1>1, LeasesInvHolds, PTL

\* An order is booked, is active and comes to one of its ends, in this order.
OrderMoves ==
    \A o \in Orders :
        order'[o].status # order[o].status =>
            \/ order[o].status = "none" /\ order'[o].status = "active"
            \/ order[o].status = "active" /\ order'[o].status \in Terminal

\* Sections insert new orders and expire active ones.
LEMMA SectionMoves ==
    ASSUME LeasesTypeOK, Locking, OrdersOwned, NEW p \in Requests, InTheSection(p)
    PROVE  OrderMoves
<1>1. order \in [Orders -> Order]
  BY TypeParts DEF ReservationType
<1>2. CASE UNCHANGED order
  BY <1>2 DEF OrderMoves
<1>3. CASE ExpireDue(p)
  BY <1>1, <1>3 DEF ExpireDue, Expire, Due, OrderMoves, Terminal
<1>4. CASE Insert(p)
  <2>1. request[p].pc = "insert" /\ request[p].to = NoTarget
    BY <1>4 DEF Insert, Locking, StillSo
  <2>2. order[Ours(p)].status = "none"
    BY <2>1 DEF OrdersOwned, Creating, Section
  <2>3. \A o \in Orders : o # Ours(p) => order'[o] = order[o]
    BY <1>1, <1>4 DEF Insert, Ours
  <2>4. UNCHANGED order \/ order' = [order EXCEPT ![Ours(p)] =
            [status |-> "active", resource |-> request[p].resource, left |-> Duration]]
    BY <1>4 DEF Insert, Ours
  <2> QED
    BY <1>1, <2>2, <2>3, <2>4 DEF OrderMoves
<1> QED
  BY <1>2, <1>3, <1>4 DEF InTheSection, Find, CheckActive, SaveListing, Release

\* An order that was returned, cancelled or has expired stays what it is: the
\* update of EndOrder asks for an active one, and create inserts its own.
THEOREM OrderLifecycle == LeasesSpec => [][OrderMoves]_leasesVars
<1>1. ASSUME LeasesInv, LeasesNext PROVE OrderMoves
  <2>1. LeasesTypeOK /\ Locking /\ OrdersOwned
    BY <1>1 DEF LeasesInv
  <2>2. CASE UNCHANGED order
    BY <2>2 DEF OrderMoves
  <2>3. CASE Outside
    BY <2>3 DEF Outside, OrderMoves
  <2>4. ASSUME NEW p \in Requests, InTheSection(p) PROVE OrderMoves
    BY <2>1, <2>4, SectionMoves
  <2>5. Outside \/ UNCHANGED order \/ \E p \in Requests : InTheSection(p)
    <3>1. CASE Reservation
      <4>1. ASSUME NEW p \in Requests, NEW o \in Orders, ReturnOrder(p, o) \/ CancelOrder(p, o)
            PROVE  Outside
        BY <2>1, <4>1, EnvironmentOutside
      <4>2. Handlers \subseteq Requests
        BY DEF Handlers
      <4> QED
        BY <3>1, <4>1, <4>2 DEF Reservation, Book, SetListingStatus, Acquire, ReleaseFails, Lapse
    <3>2. CASE Expiry \/ \E p \in Requests : Booking(p)
      BY <2>1, <3>2, EnvironmentOutside DEF Expiry, Booking
    <3>3. CASE LeasesTick \/ \E p \in Requests : SagaStep(p) \/ Dies(p)
      BY <2>1, <3>3, EnvironmentOutside, SagaOutside
    <3> QED
      BY <1>1, <3>1, <3>2, <3>3, LeasesSteps
  <2> QED
    BY <2>2, <2>3, <2>4, <2>5
<1>2. LeasesInv /\ [LeasesNext]_leasesVars => [OrderMoves]_leasesVars
  BY <1>1
<1> QED
  BY <1>2, LeasesInvHolds, PTL DEF LeasesSpec

\* A billing entry that was made stays as it is, and a lease gets no second refund.
EntriesStay ==
    /\ charged \subseteq charged'
    /\ \A o \in Orders : refunded[o] > 0 => refunded'[o] = refunded[o]
    /\ toppedUp <= toppedUp'

\* However many handlers end a lease, refundUnused repays it once, and no charge or
\* top-up entry is ever lost.
THEOREM SettledOnce == LeasesSpec => [][EntriesStay]_leasesVars
<1>1. ASSUME LeasesInv, LeasesNext PROVE EntriesStay
  <2>1. LeasesTypeOK /\ OrdersOwned /\ Paying
    BY <1>1 DEF LeasesInv
  <2>2. toppedUp \in Int
    BY <2>1, TypeParts, ScenarioType
  <2>3. CASE UNCHANGED <<charged, refunded, toppedUp>>
    BY <2>2, <2>3 DEF EntriesStay
  <2>4. ASSUME NEW o \in Orders, NEW a \in Int, RefundUnused(o, a) PROVE EntriesStay
    <3>1. /\ charged' = charged
          /\ \A u \in Orders : u # o => refunded'[u] = refunded[u]
          /\ refunded'[o] = refunded[o] \/ refunded[o] = 0
      BY <2>1, <2>4, RefundGrows
    <3>2. toppedUp' = toppedUp
      BY <2>4 DEF RefundUnused, wallet
    <3> QED
      BY <2>2, <3>1, <3>2 DEF EntriesStay
  <2>5. ASSUME NEW p \in Requests, SagaStep(p) \/ Dies(p) PROVE EntriesStay
    <3>1. CASE UndoRefund(p)
      <4>1. Ours(p) \in Orders /\ Price \in Int /\ RefundUnused(Ours(p), Price)
        BY <2>1, <3>1, WorkedOn, DurationType DEF UndoRefund, Price
      <4> QED
        BY <2>4, <4>1
    <3>2. CASE RefundTerminated(p)
      <4>1. Ours(p) \in Orders /\ Unused(Doc(p)) \in Int /\ RefundUnused(Ours(p), Unused(Doc(p)))
        BY <2>1, <3>2, WorkedOn, UnusedType DEF RefundTerminated
      <4> QED
        BY <2>4, <4>1
    <3>3. CASE SaveTopUp(p)
      BY <2>2, <3>3 DEF SaveTopUp, EntriesStay
    <3>4. CASE ChargeOrder(p) \/ ChargeFails(p)
      <4>1. Charge(Ours(p)) \/ UNCHANGED wallet
        BY <3>4 DEF ChargeOrder, ChargeFails
      <4> QED
        BY <2>2, <4>1 DEF Charge, wallet, EntriesStay
    <3> QED
      BY <2>3, <2>5, <3>1, <3>2, <3>3, <3>4
         DEF SagaStep, TopUp, InsufficientBalance, CreateForOrder, CreateFails, Undo, Refused,
             FindByOrder, Sweep, SaveTerminated, ReturnTerminated, CheckOrder, SaveStart,
             SaveStop, Dies, Terminate, Start, Stop, wallet
  <2> QED
    BY <1>1, <2>3, <2>5, LeasesSteps DEF Reservation, Expiry, Booking, LeasesTick, wallet
<1>2. LeasesInv /\ [LeasesNext]_leasesVars => [EntriesStay]_leasesVars
  BY <1>1
<1> QED
  BY <1>2, LeasesInvHolds, PTL DEF LeasesSpec

\* A terminated instance is terminated for good, where no save undid another.
InstancesEnd ==
    \A o \in Orders :
        instance[o].status = "terminated" =>
            (instance'[o].status = "terminated" \/ "instance" \in torn')

\* Nothing starts or stops an instance that was terminated, except a save() of
\* a document that had been read before.
THEOREM TerminatedForGood == LeasesSpec => [][InstancesEnd]_leasesVars
<1>1. ASSUME LeasesInv, LeasesNext PROVE InstancesEnd
  <2>1. LeasesTypeOK /\ OrdersOwned /\ Paying /\ Provisioned
    BY <1>1 DEF LeasesInv
  <2>2. CASE UNCHANGED instance
    BY <2>2 DEF InstancesEnd
  <2>3. CASE LeasesTick
    BY <2>1, <2>3, TypeParts, DocumentType DEF LeasesTick, InstancesEnd
  <2>4. ASSUME NEW p \in Requests, SagaStep(p) \/ Dies(p) PROVE InstancesEnd
    BY <2>1, <2>4, InstanceSteps DEF InstancesEnd
  <2> QED
    BY <1>1, <2>2, <2>3, <2>4, LeasesSteps DEF Reservation, Expiry, Booking
<1>2. LeasesInv /\ [LeasesNext]_leasesVars => [InstancesEnd]_leasesVars
  BY <1>1
<1> QED
  BY <1>2, LeasesInvHolds, PTL DEF LeasesSpec

-----------------------------------------------------------------------------
(* Leases implements Rental *)

\* What a renter sees of the orders.
Rentals == [o \in Orders |-> [status |-> order[o].status, resource |-> order[o].resource]]

RentalStep == [Renting!Next]_<<Rentals, charged, refunded>>

\* The actions of one order are steps of Rental.
LEMMA RentalActions ==
    ASSUME NEW o \in Orders,
           \/ \E r \in Resources : Renting!Begin(o, r)
           \/ Renting!Pay(o)
           \/ \E n \in 1..Price : Renting!Repay(o, n)
    PROVE  RentalStep
<1>1. Renting!Next
  BY Zenon DEF Renting!Next
<1> QED
  BY <1>1 DEF RentalStep

\* Orders that were active come to the same end, or none does.
LEMMA EndsRental ==
    ASSUME LeasesTypeOK, UNCHANGED <<charged, refunded>>,
           NEW S \in SUBSET Orders, NEW s \in Terminal,
           \A o \in S : order[o].status = "active",
           \A o \in Orders :
              /\ order'[o].resource = order[o].resource
              /\ order'[o].status = IF o \in S THEN s ELSE order[o].status
    PROVE  RentalStep
<1>1. CASE S = {}
  <2>1. Rentals' = Rentals
    BY <1>1 DEF Rentals
  <2> QED
    BY <2>1 DEF RentalStep
<1>2. CASE S # {}
  <2>1. S \in SUBSET Renting!Active
    BY DEF Renting!Active
  <2>2. Rentals' = [o \in Orders |-> IF o \in S THEN [Rentals[o] EXCEPT !.status = s]
                                                ELSE Rentals[o]]
    BY DEF Rentals
  <2>3. Renting!End(S, s)
    BY <1>2, <2>2 DEF Renting!End, Rentals
  <2>4. Renting!Next
    BY <2>1, <2>3 DEF Renting!Next, Terminal
  <2> QED
    BY <2>4 DEF RentalStep
<1> QED
  BY <1>1, <1>2

\* So it is with one order that was active, and with all that are due.
LEMMA BecomesEnds ==
    ASSUME LeasesTypeOK, UNCHANGED <<charged, refunded>>,
           NEW o \in Orders, NEW s \in Terminal, order[o].status = "active", Becomes(o, s)
    PROVE  RentalStep
<1>1. order \in [Orders -> Order]
  BY TypeParts DEF ReservationType
<1>2. \A u \in Orders :
        /\ order'[u].resource = order[u].resource
        /\ order'[u].status = IF u \in {o} THEN s ELSE order[u].status
  BY <1>1 DEF Becomes, Order
<1> QED
  BY <1>2, EndsRental

LEMMA ExpireEnds ==
    ASSUME LeasesTypeOK, UNCHANGED <<charged, refunded>>, NEW S \in SUBSET Orders, Expire(S)
    PROVE  RentalStep
<1> DEFINE D == {o \in S : Due(o)}
<1>1. order \in [Orders -> Order]
  BY TypeParts DEF ReservationType
<1>2. \A u \in Orders :
        /\ order'[u].resource = order[u].resource
        /\ order'[u].status = IF u \in D THEN "expired" ELSE order[u].status
  BY <1>1 DEF Expire, Order
<1>3. \A o \in D : order[o].status = "active"
  BY DEF Due
<1>4. D \in SUBSET Orders /\ "expired" \in Terminal
  BY DEF Terminal
<1> HIDE DEF D
<1> QED
  BY <1>2, <1>3, <1>4, EndsRental

\* Who leaves orders and entries alone does nothing a renter sees.
LEMMA NothingRented ==
    ASSUME UNCHANGED <<order, charged, refunded>>
    PROVE  RentalStep
BY DEF RentalStep, Rentals

\* The unique index makes an insert the begin of a rental.
LEMMA InsertBegins ==
    ASSUME LeasesTypeOK, Locking, OrdersOwned, UNCHANGED <<charged, refunded>>,
           NEW p \in Requests, Insert(p)
    PROVE  RentalStep
<1>1. order \in [Orders -> Order]
  BY TypeParts DEF ReservationType
<1>2. request[p].pc = "insert" /\ request[p].to = NoTarget /\ request[p].resource \in Resources
  BY DEF Insert, Locking, StillSo, SectionHeld, Section
<1>3. Ours(p) \in Orders /\ order[Ours(p)].status = "none"
  BY <1>2 DEF OrdersOwned, Creating, Section
<1>4. CASE UNCHANGED order
  BY <1>4, NothingRented
<1>5. ASSUME NEW o \in Orders, order[o].status = "none",
             NEW r \in Resources, ActiveOn(r) = {},
             order' = [order EXCEPT ![o] =
                         [status |-> "active", resource |-> r, left |-> Duration]]
      PROVE  RentalStep
  <2> DEFINE begun == [status |-> "active", resource |-> r]
  <2>1. Rentals' = [Rentals EXCEPT ![o] = begun]
    <3>1. \A u \in Orders : Rentals'[u] = IF u = o THEN begun ELSE Rentals[u]
      BY <1>1, <1>5 DEF Rentals
    <3>2. Rentals = [u \in Orders |-> Rentals[u]] /\ Rentals' = [u \in Orders |-> Rentals'[u]]
      BY DEF Rentals
    <3> HIDE DEF begun
    <3> QED
      BY <3>1, <3>2
  <2>2. \A u \in Renting!Active : Rentals[u].resource # r
    BY <1>5 DEF Renting!Active, ActiveOn, Rentals
  <2>3. Rentals[o].status = "none"
    BY <1>5 DEF Rentals
  <2>4. Renting!Begin(o, r)
    BY <2>1, <2>2, <2>3 DEF Renting!Begin, Rentals
  <2> QED
    BY <2>4, RentalActions
<1> QED
  BY <1>2, <1>3, <1>4, <1>5 DEF Insert, Ours

\* Reservations, the sections and both clocks.
LEMMA ReservationRents ==
    ASSUME LeasesTypeOK, Locking, OrdersOwned,
           Reservation \/ Expiry \/ (\E p \in Requests : Booking(p)) \/ LeasesTick
    PROVE  RentalStep
<1>1. UNCHANGED <<charged, refunded>>
  BY DEF Reservation, Expiry, Booking, LeasesTick, wallet
<1>2. CASE UNCHANGED order
  BY <1>1, <1>2, NothingRented
<1>3. ASSUME NEW p \in Requests, InTheSection(p) PROVE RentalStep
  <2>1. CASE ExpireDue(p)
    <3>1. ActiveOn(request[p].resource) \in SUBSET Orders
      BY DEF ActiveOn
    <3>2. Expire(ActiveOn(request[p].resource))
      BY <2>1 DEF ExpireDue
    <3>3. ASSUME NEW S \in SUBSET Orders, S = ActiveOn(request[p].resource), Expire(S)
          PROVE  RentalStep
      BY <1>1, <3>3, ExpireEnds
    <3> QED
      BY <3>1, <3>2, <3>3
  <2>2. CASE Insert(p)
    BY <1>1, <2>2, InsertBegins
  <2> QED
    BY <1>2, <1>3, <2>1, <2>2 DEF InTheSection, Find, CheckActive, SaveListing, Release
<1>4. ASSUME NEW p \in Requests, NEW o \in Orders, ReturnOrder(p, o) \/ CancelOrder(p, o)
      PROVE  RentalStep
  <2>1. PICK s \in Terminal : EndOrder(p, o, s)
    BY <1>4 DEF ReturnOrder, CancelOrder, Terminal
  <2> QED
    BY <1>1, <1>2, <2>1, BecomesEnds DEF EndOrder
<1>5. CASE Reservation
  <2>1. Handlers \subseteq Requests
    BY DEF Handlers
  <2> QED
    BY <1>2, <1>4, <1>5, <2>1 DEF Reservation, Book, SetListingStatus, Acquire, ReleaseFails, Lapse
<1>6. CASE Expiry
  <2>1. Expire(Orders)
    BY <1>6 DEF Expiry, ExpireDueOrders
  <2> QED
    BY <1>1, <2>1, ExpireEnds
<1>7. CASE \E p \in Requests : Booking(p)
  BY <1>2, <1>3, <1>7 DEF Booking, Answer
<1>8. CASE LeasesTick
  <2>1. \A o \in Orders : order'[o].resource = order[o].resource /\ order'[o].status = order[o].status
    BY <1>8, TypeParts DEF LeasesTick, Elapsed, Order, ReservationType
  <2>2. Rentals' = Rentals
    BY <2>1 DEF Rentals
  <2> QED
    BY <1>1, <2>2 DEF RentalStep
<1> QED
  BY <1>5, <1>6, <1>7, <1>8

\* A charge is a payment, of an order that was booked and not paid yet.
LEMMA ChargePays ==
    ASSUME LeasesTypeOK, OrdersOwned, UNCHANGED order,
           NEW p \in Requests, request[p].pc = "booked", Charge(Ours(p))
    PROVE  RentalStep
<1>1. Ours(p) \in Orders \ charged /\ order[Ours(p)].status # "none"
  BY DEF OrdersOwned, Creating
<1>2. ASSUME NEW o \in Orders \ charged, order[o].status # "none", Charge(o)
      PROVE  RentalStep
  <2>1. Rentals' = Rentals /\ Rentals[o].status # "none"
    BY <1>2 DEF Rentals
  <2>2. Renting!Pay(o)
    BY <1>2, <2>1 DEF Renting!Pay, Rentals, Charge
  <2> QED
    BY <2>2, RentalActions
<1> QED
  BY <1>1, <1>2

\* A refund repays an order that was paid, once: that RefundFollowsCharge holds
\* after the step says of which order it was.
LEMMA RefundRepays ==
    ASSUME LeasesTypeOK, RefundFollowsCharge', UNCHANGED order,
           NEW o \in Orders, NEW a \in Int, RefundUnused(o, a)
    PROVE  RentalStep
<1>1. refunded \in [Orders -> Nat] /\ Price \in Nat
  BY TypeParts, DurationType DEF Price
<1>2. CASE UNCHANGED wallet
  BY <1>2, NothingRented DEF wallet
<1>3. CASE a > 0 /\ refunded[o] = 0
  <2>1. charged' = charged /\ refunded' = [refunded EXCEPT ![o] = a]
    BY <1>1, <1>3 DEF RefundUnused
  <2>2. o \in charged /\ a \in 1..Price
    <3>1. refunded'[o] = a
      BY <1>1, <2>1
    <3> QED
      BY <1>1, <1>3, <2>1, <3>1 DEF RefundFollowsCharge, Price
  <2>3. Renting!Repay(o, a)
    BY <1>3, <2>1, <2>2 DEF Renting!Repay
  <2> QED
    BY <2>2, <2>3, RentalActions
<1> QED
  BY <1>2, <1>3 DEF RefundUnused

\* The saga, and a crash.
LEMMA SagaRents ==
    ASSUME LeasesTypeOK, OrdersOwned, Paying, RefundFollowsCharge',
           NEW p \in Requests, SagaStep(p) \/ Dies(p)
    PROVE  RentalStep
<1>1. CASE UNCHANGED <<order, charged, refunded>>
  BY <1>1, NothingRented
<1>2. CASE ChargeOrder(p) \/ ChargeFails(p)
  BY <1>1, <1>2, ChargePays DEF ChargeOrder, ChargeFails, wallet
<1>3. CASE UndoRefund(p)
  <2>1. Ours(p) \in Orders /\ Price \in Int /\ RefundUnused(Ours(p), Price) /\ UNCHANGED order
    BY <1>3, WorkedOn, DurationType DEF UndoRefund, Price
  <2>2. PICK o \in Orders, a \in Int : RefundUnused(o, a)
    BY <2>1
  <2> QED
    BY <2>1, <2>2, RefundRepays
<1>4. CASE RefundTerminated(p)
  <2>1. /\ Ours(p) \in Orders /\ Unused(Doc(p)) \in Int
        /\ RefundUnused(Ours(p), Unused(Doc(p))) /\ UNCHANGED order
    BY <1>4, WorkedOn, UnusedType DEF RefundTerminated
  <2>2. PICK o \in Orders, a \in Int : RefundUnused(o, a)
    BY <2>1
  <2> QED
    BY <2>1, <2>2, RefundRepays
<1>5. CASE Undo(p) \/ ReturnTerminated(p)
  <2>1. Ours(p) \in Orders /\ UNCHANGED <<charged, refunded>>
    BY <1>5, WorkedOn DEF Undo, ReturnTerminated, wallet
  <2>2. UNCHANGED order \/ \E s \in Terminal : order[Ours(p)].status = "active" /\ Becomes(Ours(p), s)
    BY <1>5 DEF Undo, ReturnTerminated, Terminal
  <2>3. ASSUME NEW o \in Orders, NEW s \in Terminal, order[o].status = "active", Becomes(o, s)
        PROVE  RentalStep
    BY <2>1, <2>3, BecomesEnds
  <2> QED
    BY <1>1, <2>1, <2>2, <2>3
<1> QED
  BY <1>1, <1>2, <1>3, <1>4, <1>5
     DEF SagaStep, TopUp, SaveTopUp, InsufficientBalance, CreateForOrder, CreateFails, Refused,
         FindByOrder, Sweep, SaveTerminated, CheckOrder, SaveStart, SaveStop, Dies, Crash,
         Terminate, Start, Stop, wallet

\* For any number of handlers, orders and resources, with no transaction over
\* the documents and a lock that may lapse: what create, its compensation, the
\* three ways to end a lease and the sweep do amounts to the steps of Rental, one
\* order at a time on a resource, each booked, ended, paid and repaid at most once.
THEOREM LeasesRent == LeasesSpec => RentalKept
<1>1. LeasesInit => Renting!Init
  <2> SUFFICES ASSUME LeasesInit PROVE Renting!Init
    OBVIOUS
  <2>1. /\ order = [o \in Orders |-> Unborn]
        /\ charged = {} /\ refunded = [o \in Orders |-> 0]
    BY DEF LeasesInit, BookingsInit
  <2>2. Rentals = [o \in Orders |-> [status |-> "none", resource |-> NoResource]]
    BY <2>1 DEF Rentals, Unborn
  <2> QED
    BY <2>1, <2>2 DEF Renting!Init, Rentals
<1>2. ASSUME LeasesInv, LeasesInv', [LeasesNext]_leasesVars PROVE RentalStep
  <2>1. LeasesTypeOK /\ Locking /\ OrdersOwned /\ Paying
    BY <1>2 DEF LeasesInv
  <2>2. RefundFollowsCharge'
    BY <1>2 DEF LeasesInv, Paying
  <2>3. CASE UNCHANGED leasesVars
    BY <2>3, NothingRented DEF leasesVars
  <2> QED
    BY <1>2, <2>1, <2>2, <2>3, LeasesSteps, ReservationRents, SagaRents
<1>3. LeasesInv /\ LeasesInv' /\ [LeasesNext]_leasesVars => [Renting!Next]_(Renting!vars)
  BY <1>2 DEF RentalStep, Rentals, Renting!vars
<1> QED
  BY <1>1, <1>3, LeasesInvHolds, PTL DEF LeasesSpec, RentalKept, Renting!Spec
=============================================================================
