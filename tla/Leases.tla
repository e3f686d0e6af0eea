------------------------------- MODULE Leases -------------------------------
(***************************************************************************)
(* What follows a reservation in the reference API (apps/api): the saga of *)
(* OrdersController.create over the order, the wallet and the instance,    *)
(* with its compensation; the lifecycle of an instance (InstancesService); *)
(* and the wallet of one user (CloudAccountsService).                      *)
(*                                                                         *)
(* Each collection is written by itself, in no transaction.  Orders and    *)
(* refunds are conditional updates of one document.  An instance, and the  *)
(* balance of a top-up, are read, changed in memory and saved: save()      *)
(* writes the fields that were assigned, with no version check, whatever   *)
(* has become of the document in between.                                  *)
(*                                                                         *)
(* One unit of a lease costs one unit of the wallet, so that Duration is   *)
(* the price of an order.  Notifications, volumes and teams are left out;  *)
(* a failure to write them is a failure of the step they belong to.        *)
(***************************************************************************)
EXTENDS Bookings, FiniteSets, Functions

CONSTANTS
    Sweepers,  \* of Requests: terminateExpiredInstances of an API instance
    Amount,    \* amountCents of every top-up
    Scenarios  \* the circumstances a behaviour may have

\* OPENING_BALANCE_CENTS; bounds of the crashes and failed calls, and of the
\* top-ups; whether listings change and locks lapse under their holders.
ASSUME LeasesAssumption ==
    /\ Sweepers \subseteq Requests
    /\ Amount \in Nat
    /\ Scenarios \subseteq [opening : Nat, faults : 0..MaxFaults, topUps : Nat, listings : BOOLEAN]

VARIABLES
    scenario, \* rigid: one of Scenarios
    instance, \* the instance document of each order
    charged,  \* the orders with a charge among the billing entries
    refunded, \* what the refund entries of each order come to
    balance,  \* balanceCents
    toppedUp, \* the number of top-up entries
    work,     \* what a handler keeps between its awaits, beside its request
    torn      \* history: what was saved over a change made since it was read

leasesVars == <<scenario, listing, lock, order, request, lapsed, overrun, faults,
          instance, charged, refunded, balance, toppedUp, work, torn>>

wallet == <<charged, refunded, balance, toppedUp>>
lockState == <<scenario, listing, lock, lapsed, overrun>>

Handlers == Requests \ Sweepers

-----------------------------------------------------------------------------
(* Documents *)

Price == Duration

Never == -1

\* run is the time since runningSince, Never when that is null; ran is what
\* accumulatedRunSeconds holds.  Both are cut at the lease, as billing is.
Document == [status : {"none", "running", "stopped", "terminated"},
             run    : 0..Duration \cup {Never},
             ran    : 0..Duration]

NoDocument == [status |-> "none", run |-> Never, ran |-> 0]

AtMost(n) == IF n < Duration THEN n ELSE Duration

\* accumulateRunningTime: the running time is added up and the clock stopped.
Paused(doc) ==
    [doc EXCEPT !.ran = IF doc.run = Never THEN @ ELSE AtMost(@ + doc.run), !.run = Never]

\* save() of a document that was paused and got a status: runningSince and
\* the sum are written only if that changed them.
Saved(current, doc, status) ==
    [status |-> status,
     run |-> IF doc.run = Never THEN current.run ELSE Never,
     ran |-> IF Paused(doc).ran = doc.ran THEN current.ran ELSE Paused(doc).ran]

\* maximumCostCents - accruedCostCents of the view.
Unused(doc) == Price - Paused(doc).ran

NoWork == [charged |-> FALSE, returns |-> FALSE, seen |-> 0, docs |-> [o \in {} |-> NoDocument]]

Steps == Section \cup {"idle", "answer", "booked", "provision", "undo", "undoFind",
                       "undoRefund", "refused", "ended", "terminate", "return", "refund",
                       "start", "saveStart", "saveStop", "topUp"}

LeasesTypeOK ==
    /\ scenario \in Scenarios
    /\ listing \in [Resources -> Listings]
    /\ lock \in [Resources -> Requests \cup {NoRequest}]
    /\ lapsed \subseteq Requests
    /\ overrun \subseteq Resources
    /\ faults \in 0..scenario.faults
    /\ order \in [Orders -> Order]
    /\ request \in [Requests -> [pc : Steps, resource : Resources \cup {NoResource},
                                 order : Orders \cup {NoOrder},
                                 to : Listings \cup {NoTarget}]]
    /\ instance \in [Orders -> Document]
    /\ charged \subseteq Orders
    /\ refunded \in [Orders -> Nat]
    /\ balance \in Nat
    /\ toppedUp \in 0..scenario.topUps
    /\ work \in [Requests -> [charged : BOOLEAN, returns : BOOLEAN, seen : Nat,
                              docs : UNION {[O -> Document] : O \in SUBSET Orders}]]
    /\ torn \subseteq {"account", "instance"}

Ours(p) == request[p].order

Doc(p) == work[p].docs[Ours(p)]

\* Whether another handler has saved the document since this one read it.
Overwrites(o, doc) ==
    torn' = IF instance[o].status = doc.status /\ instance[o].ran = doc.ran
            THEN torn ELSE torn \cup {"instance"}

LeasesInit ==
    /\ scenario \in Scenarios
    /\ BookingsInit
    /\ listing = [r \in Resources |-> "online"]
    /\ instance = [o \in Orders |-> NoDocument]
    /\ charged = {}
    /\ refunded = [o \in Orders |-> 0]
    /\ balance = scenario.opening
    /\ toppedUp = 0
    /\ work = [p \in Requests |-> NoWork]
    /\ torn = {}

\* A step of a handler that takes it to pc, and one that ends it.
Move(p, pc) == Goto(p, pc) /\ UNCHANGED work

Finish(p) ==
    /\ request' = [request EXCEPT ![p] = Idle]
    /\ work' = [work EXCEPT ![p] = NoWork]

Fails == faults < scenario.faults /\ faults' = faults + 1

-----------------------------------------------------------------------------
(* The wallet *)

\* chargeOrder: one conditional update of the balance and the entries.
Charge(o) ==
    /\ balance >= Price
    /\ balance' = balance - Price
    /\ charged' = charged \cup {o}
    /\ UNCHANGED <<refunded, toppedUp>>

\* A bug: the reference keeps a second entry out, not a second credit.
RefundInTwo(o, amount) ==
    /\ balance' = balance + amount
    /\ refunded' = [refunded EXCEPT ![o] = IF @ = 0 THEN amount ELSE @]
    /\ UNCHANGED <<charged, toppedUp>>

\* refundUnused: nothing for nothing, and once for every order.
RefundUnused(o, amount) ==
    IF amount > 0 /\ refunded[o] = 0
    THEN /\ balance' = balance + amount
         /\ refunded' = [refunded EXCEPT ![o] = @ + amount]
         /\ UNCHANGED <<charged, toppedUp>>
    ELSE UNCHANGED wallet

\* topUp reads the account, adds to the balance in memory and saves it; the
\* entry is pushed, so that it alone survives a save by somebody else.
TopUp(p) ==
    /\ request[p].pc = "idle"
    /\ toppedUp < scenario.topUps
    /\ Goto(p, "topUp")
    /\ work' = [work EXCEPT ![p].seen = balance]
    /\ UNCHANGED <<lockState, order, faults, instance, wallet, torn>>

SaveTopUp(p) ==
    /\ request[p].pc = "topUp"
    /\ toppedUp < scenario.topUps
    /\ balance' = work[p].seen + Amount
    /\ toppedUp' = toppedUp + 1
    /\ torn' = IF balance = work[p].seen THEN torn ELSE torn \cup {"account"}
    /\ Finish(p)
    /\ UNCHANGED <<lockState, order, faults, instance, charged, refunded>>

-----------------------------------------------------------------------------
(* OrdersController.create, from the order on *)

ChargeOrder(p) ==
    /\ request[p].pc = "booked"
    /\ Charge(Ours(p))
    /\ Goto(p, "provision")
    /\ work' = [work EXCEPT ![p].charged = TRUE]
    /\ UNCHANGED <<lockState, order, faults, instance, torn>>

InsufficientBalance(p) ==
    /\ request[p].pc = "booked"
    /\ balance < Price
    /\ Move(p, "undo")
    /\ UNCHANGED <<lockState, order, faults, instance, wallet, torn>>

\* The call ends with an error, before or after MongoDB has executed it: the
\* handler cannot tell, and takes the order for one that was not charged.
ChargeFails(p) ==
    /\ request[p].pc = "booked"
    /\ Fails
    /\ Charge(Ours(p)) \/ UNCHANGED wallet
    /\ Move(p, "undo")
    /\ UNCHANGED <<lockState, order, instance, torn>>

Running == [status |-> "running", run |-> 0, ran |-> 0]

\* createForOrder and recordBooking, whatever has become of the order.
CreateForOrder(p) ==
    /\ request[p].pc = "provision"
    /\ instance' = [instance EXCEPT ![Ours(p)] = Running]
    /\ Finish(p)
    /\ UNCHANGED <<lockState, order, faults, wallet, torn>>

\* The insert fails, or what follows it: the notification, the booking.
CreateFails(p) ==
    /\ request[p].pc = "provision"
    /\ Fails
    /\ \/ instance' = [instance EXCEPT ![Ours(p)] = Running]
       \/ UNCHANGED instance
    /\ Move(p, "undo")
    /\ UNCHANGED <<lockState, order, wallet, torn>>

\* cancelOrder of the compensation.  An order that was returned or has
\* expired meanwhile makes it throw, and the rest of it is skipped.
Undo(p) ==
    LET o == Ours(p)
    IN  /\ request[p].pc = "undo"
        /\ IF order[o].status = "active" THEN Becomes(o, "cancelled") ELSE UNCHANGED order
        /\ IF order[o].status \in {"active", "cancelled"} THEN Move(p, "undoFind") ELSE Finish(p)
        /\ UNCHANGED <<lockState, faults, instance, wallet, torn>>

\* An order whose instance was never created is repaid in full.
UndoRefund(p) ==
    /\ request[p].pc = "undoRefund"
    /\ RefundUnused(Ours(p), Price)
    /\ Move(p, "refused")
    /\ UNCHANGED <<lockState, order, faults, instance, torn>>

\* The answer of a create that was undone.
Refused(p) ==
    /\ request[p].pc = "refused"
    /\ Finish(p)
    /\ UNCHANGED <<lockState, order, faults, instance, wallet, torn>>

-----------------------------------------------------------------------------
(* The end of an instance: terminateDocument, for every document that was  *)
(* read.                                                                   *)

Reads(p, O, returns) ==
    work' = [work EXCEPT ![p].docs = [o \in O |-> instance[o]], ![p].returns = returns]

\* A bug: the compensation leaves the refund to the instance, also when there
\* is none.
FindByOrderOnly(p) ==
    LET o == Ours(p)
    IN  /\ request[p].pc \in {"undoFind", "ended"}
        /\ IF instance[o].status # "none"
           THEN Goto(p, "terminate") /\ Reads(p, {o}, FALSE)
           ELSE IF request[p].pc = "ended" THEN Finish(p) ELSE Move(p, "refused")
        /\ UNCHANGED <<lockState, order, faults, instance, wallet, torn>>

\* terminateByOrderId, of the compensation and after a return or a
\* cancellation.
FindByOrder(p) ==
    LET o == Ours(p)
    IN  /\ request[p].pc \in {"undoFind", "ended"}
        /\ IF instance[o].status # "none"
           THEN Goto(p, "terminate") /\ Reads(p, {o}, FALSE)
           ELSE IF request[p].pc = "ended" THEN Finish(p)
           ELSE Move(p, IF work[p].charged THEN "undoRefund" ELSE "refused")
        /\ UNCHANGED <<lockState, order, faults, instance, wallet, torn>>

\* The owner's terminate, which returns the order as well.
Terminate(p, o) ==
    /\ request[p].pc = "idle"
    /\ instance[o].status # "none"
    /\ request' = [request EXCEPT ![p].pc = "terminate"]
    /\ Reads(p, {o}, TRUE)
    /\ UNCHANGED <<lockState, order, faults, instance, wallet, torn>>

\* A bug: the sweep overlooks the instances that were stopped.
ExpiredRunning == {o \in Orders : instance[o].status = "running" /\ order[o].left = 0}

Expired ==
    {o \in Orders : instance[o].status \in {"running", "stopped"} /\ order[o].left = 0}

\* terminateExpiredInstances finds all of them and then takes one by one.
Sweep(p) ==
    /\ request[p].pc = "idle"
    /\ Expired # {}
    /\ Goto(p, "terminate")
    /\ Reads(p, Expired, FALSE)
    /\ UNCHANGED <<lockState, order, faults, instance, wallet, torn>>

SaveTerminated(p) ==
    /\ request[p].pc = "terminate"
    /\ \E o \in DOMAIN work[p].docs :
         LET doc == work[p].docs[o]
         IN  /\ IF doc.status = "terminated"
                THEN UNCHANGED <<instance, torn>>
                ELSE /\ instance' = [instance EXCEPT ![o] = Saved(@, doc, "terminated")]
                     /\ Overwrites(o, doc)
             /\ request' = [request EXCEPT ![p].order = o,
                              ![p].pc = IF work[p].returns THEN "return" ELSE "refund"]
             /\ work' = [work EXCEPT ![p].docs[o] = [Paused(doc) EXCEPT !.status = "terminated"]]
    /\ UNCHANGED <<lockState, order, faults, wallet>>

ReturnTerminated(p) ==
    LET o == Ours(p)
    IN  /\ request[p].pc = "return"
        /\ IF order[o].status = "active" THEN Becomes(o, "returned") ELSE UNCHANGED order
        /\ Move(p, "refund")
        /\ UNCHANGED <<lockState, faults, instance, wallet, torn>>

\* A bug: only the owner's own terminate reconciles the wallet.
RefundOwnersOnly(p) ==
    LET rest == DOMAIN work[p].docs \ {Ours(p)}
    IN  /\ request[p].pc = "refund"
        /\ IF work[p].returns THEN RefundUnused(Ours(p), Unused(Doc(p))) ELSE UNCHANGED wallet
        /\ IF rest # {}
           THEN Goto(p, "terminate") /\ work' = [work EXCEPT ![p].docs = Restrict(@, rest)]
           ELSE IF work[p].charged THEN Move(p, "refused") ELSE Finish(p)
        /\ UNCHANGED <<lockState, order, faults, instance, torn>>

RefundTerminated(p) ==
    LET rest == DOMAIN work[p].docs \ {Ours(p)}
    IN  /\ request[p].pc = "refund"
        /\ RefundUnused(Ours(p), Unused(Doc(p)))
        /\ IF rest # {}
           THEN Goto(p, "terminate") /\ work' = [work EXCEPT ![p].docs = Restrict(@, rest)]
           ELSE IF work[p].charged THEN Move(p, "refused") ELSE Finish(p)
        /\ UNCHANGED <<lockState, order, faults, instance, torn>>

-----------------------------------------------------------------------------
(* Start and stop *)

\* A start of an instance that is already running answers, one that has
\* been terminated is refused, and one whose lease is over terminates it.
Start(p, o) ==
    /\ request[p].pc = "idle"
    /\ instance[o].status = "stopped"
    /\ request' = [request EXCEPT ![p].order = o,
                     ![p].pc = IF order[o].left = 0 THEN "terminate" ELSE "start"]
    /\ Reads(p, {o}, FALSE)
    /\ UNCHANGED <<lockState, order, faults, instance, wallet, torn>>

CheckOrder(p) ==
    /\ request[p].pc = "start"
    /\ IF order[Ours(p)].status = "active" THEN Move(p, "saveStart") ELSE Finish(p)
    /\ UNCHANGED <<lockState, order, faults, instance, wallet, torn>>

SaveStart(p) ==
    /\ request[p].pc = "saveStart"
    /\ instance' = [instance EXCEPT ![Ours(p)].status = "running", ![Ours(p)].run = 0]
    /\ Overwrites(Ours(p), Doc(p))
    /\ Finish(p)
    /\ UNCHANGED <<lockState, order, faults, wallet>>

Stop(p, o) ==
    /\ request[p].pc = "idle"
    /\ instance[o].status = "running"
    /\ request' = [request EXCEPT ![p].order = o, ![p].pc = "saveStop"]
    /\ Reads(p, {o}, FALSE)
    /\ UNCHANGED <<lockState, order, faults, instance, wallet, torn>>

SaveStop(p) ==
    /\ request[p].pc = "saveStop"
    /\ instance' = [instance EXCEPT ![Ours(p)] = Saved(@, Doc(p), "stopped")]
    /\ Overwrites(Ours(p), Doc(p))
    /\ Finish(p)
    /\ UNCHANGED <<lockState, order, faults, wallet>>

-----------------------------------------------------------------------------
(* The environment *)

Older(doc) == [doc EXCEPT !.run = IF @ = Never THEN Never ELSE AtMost(@ + 1)]

LeasesTick ==
    /\ order' = Elapsed
    /\ instance' = [o \in Orders |-> Older(instance[o])]
    /\ UNCHANGED <<lockState, request, faults, wallet, work, torn>>

Dies(p) ==
    /\ faults < scenario.faults
    /\ Crash(p)
    /\ work' = [work EXCEPT ![p] = NoWork]
    /\ UNCHANGED <<scenario, instance, wallet, torn>>

\* What Bookings does with orders, listings and locks.  Unless listings change,
\* a lock lapses only when its holder has left it behind: under its holder it
\* could at worst fail a reservation.
Reservation ==
    /\ \/ \E p \in Handlers : \E r \in Resources :
            \/ \E o \in Orders : Book(p, r, o)
            \/ \E to \in Targets : scenario.listings /\ SetListingStatus(p, r, to)
       \/ \E p \in Handlers : \E o \in Orders : ReturnOrder(p, o) \/ CancelOrder(p, o)
       \/ \E p \in Handlers : faults < scenario.faults /\ ReleaseFails(p)
       \/ \E r \in Resources :
            /\ scenario.listings \/ lock[r] \notin {p \in Requests : InSection(p, r)}
            /\ Lapse(r)
    /\ UNCHANGED <<scenario, instance, wallet, torn, work>>

Expiry == ExpireDueOrders /\ UNCHANGED <<scenario, instance, wallet, torn, work>>

Booking(p) ==
    /\ InTheSection(p) \/ Answer(p)
    /\ UNCHANGED <<scenario, instance, wallet, torn, work>>

\* A handler that was started goes on.
Proceed(p) ==
    \/ Booking(p)
    \/ ChargeOrder(p) \/ InsufficientBalance(p) \/ CreateForOrder(p)
    \/ Undo(p) \/ UndoRefund(p) \/ Refused(p)
    \/ FindByOrder(p) \/ SaveTerminated(p) \/ ReturnTerminated(p) \/ RefundTerminated(p)
    \/ CheckOrder(p) \/ SaveStart(p) \/ SaveStop(p) \/ SaveTopUp(p)

LeasesNext ==
    \/ Reservation
    \/ Expiry
    \/ LeasesTick
    \/ \E p \in Sweepers : Sweep(p)
    \/ \E p \in Handlers :
         \/ TopUp(p)
         \/ \E o \in Orders : Terminate(p, o) \/ Start(p, o) \/ Stop(p, o)
    \/ \E p \in Requests : Proceed(p) \/ ChargeFails(p) \/ CreateFails(p) \/ Dies(p)

\* Both intervals fire for ever, time passes, and what is awaited arrives.
Fairness ==
    /\ WF_leasesVars(LeasesTick)
    /\ WF_leasesVars(Expiry)
    /\ \A p \in Sweepers : WF_leasesVars(Sweep(p))
    /\ \A p \in Requests : WF_leasesVars(Proceed(p))

LeasesSpec == LeasesInit /\ [][LeasesNext]_leasesVars /\ Fairness

-----------------------------------------------------------------------------
(* Properties *)

\* However many of the owner's terminate, a return, a cancellation, the
\* compensation and the sweep end the same lease together, it is refunded
\* only if it was charged, and never by more than its price.
RefundFollowsCharge ==
    \A o \in Orders : refunded[o] > 0 => (o \in charged /\ refunded[o] <= Price)

\* The refund entries, one unit after the other.
Repaid == UNION {{o} \X (1..refunded[o]) : o \in Orders}

\* The balance is what the billing entries add up to and never negative,
\* under any interleaving of charges and refunds; a top-up whose read and
\* save enclose another write of the account is the only way out of it.
BalanceIsLedger ==
    /\ balance >= 0
    /\ \/ "account" \in torn
       \/ balance = scenario.opening + Amount * toppedUp - Price * Cardinality(charged)
                      + Cardinality(Repaid)

\* A create that answers with an error after its compensation has repaid
\* the charge it made, unless it found that the instance had used it up.
RefusedIsRepaid ==
    \A p \in Requests :
        (request[p].pc = "refused" /\ work[p].charged) =>
            \/ refunded[Ours(p)] > 0
            \/ \E o \in DOMAIN work[p].docs : Unused(work[p].docs[o]) = 0

\* Whatever is lost on the way, every lease ends in the end: its order is
\* terminal and no instance of it runs any more, or will again.
LeasesEnd ==
    \A o \in Orders :
        <>[](order[o].status # "active" /\ instance[o].status \in {"none", "terminated"})

\* What a terminated instance did not use is back in the wallet once nobody
\* works on it any more, as long as no handler died or failed and no save has
\* undone another one.
UnusedComesBack ==
    \A o \in Orders :
        (instance[o].status = "terminated" /\ \A p \in Requests : o \notin DOMAIN work[p].docs) =>
            \/ faults > 0
            \/ "instance" \in torn
            \/ refunded[o] > 0
            \/ instance[o].ran = Duration

\* Whatever create, its compensation, three ways to end a lease and the sweep do
\* at once, and wherever they fail: a resource is rented by one order at a time,
\* an order is booked and ends once, is paid at most once and only if it was
\* booked, and is repaid at most once and only what was paid.
Renting == INSTANCE Rental WITH
    rental <- [o \in Orders |-> [status |-> order[o].status, resource |-> order[o].resource]],
    paid <- charged,
    repaid <- refunded

RentalKept == Renting!Spec

=============================================================================
