------------------------------ MODULE Bookings ------------------------------
(***************************************************************************)
(* The reservations of the reference API (apps/api): OrdersService and     *)
(* the listing status of GpuResourcesService, over MongoDB documents, with *)
(* the Redis lock of DistributedLockService around the two handlers that   *)
(* look before they write.                                                 *)
(*                                                                         *)
(* A request is one handler in flight; every call to MongoDB or Redis it   *)
(* awaits is one atomic action, and the API instances share nothing else.  *)
(* The lock has a time to live and nothing stops a handler that outlives   *)
(* it.  Time is counted in units of a lease: an order has that much left   *)
(* until endsAt, and the time between reading the clock and the statement  *)
(* that uses it is not counted.                                            *)
(***************************************************************************)
EXTENDS Integers

CONSTANTS
    Requests,   \* as many handlers as may be in flight
    Resources,  \* the GPU resources
    Orders,     \* the identifiers a new order may get
    Targets,    \* the listing statuses an administrator asks for
    NoRequest,  \* nobody holds the lock
    NoResource, \* of an idle request
    NoOrder,
    NoTarget,   \* of a request that changes no listing
    Duration,   \* durationHours of every order
    MaxFaults   \* bound: crashes and failed calls in a behaviour

\* A listing in maintenance is treated as one that is offline.
Listings == {"online", "offline"}

ASSUME BookingsAssumption ==
    /\ Targets \subseteq Listings
    /\ NoRequest \notin Requests
    /\ NoResource \notin Resources
    /\ NoOrder \notin Orders
    /\ NoTarget \notin Listings
    /\ Duration \in Nat \ {0}
    /\ MaxFaults \in Nat

VARIABLES
    listing, \* listingStatus of each resource
    lock,    \* the holder of lock:gpu-resource:<id>; its token is its name
    order,   \* the order documents
    request, \* the local state of each handler
    lapsed,  \* the handlers that are still in a section their lock has left
    overrun, \* history: the resources where a lock ever lapsed in a section
    faults

-----------------------------------------------------------------------------
(* Documents and requests *)

Terminal == {"returned", "expired", "cancelled"}

Order == [status   : {"none", "active"} \cup Terminal,
          resource : Resources \cup {NoResource},
          left     : 0..Duration]

Unborn == [status |-> "none", resource |-> NoResource, left |-> 0]

\* The steps of a handler while it holds, or believes it holds, the lock.
Section == {"find", "expire", "check", "insert", "save", "release"}

Idle == [pc |-> "idle", resource |-> NoResource, order |-> NoOrder, to |-> NoTarget]

ActiveOn(r) == {o \in Orders : order[o].status = "active" /\ order[o].resource = r}

Due(o) == order[o].status = "active" /\ order[o].left = 0

\* updateMany of the due orders in S: one by one in MongoDB, but nobody sees
\* the difference, as no two orders of S are looked at together.
Expire(S) ==
    order' = [o \in Orders |-> IF o \in S /\ Due(o)
                               THEN [order[o] EXCEPT !.status = "expired"]
                               ELSE order[o]]

Goto(p, pc) == request' = [request EXCEPT ![p].pc = pc]

Becomes(o, status) == order' = [order EXCEPT ![o].status = status]

BookingsInit ==
    /\ listing \in [Resources -> Listings]
    /\ lock = [r \in Resources |-> NoRequest]
    /\ order = [o \in Orders |-> Unborn]
    /\ request = [p \in Requests |-> Idle]
    /\ lapsed = {}
    /\ overrun = {}
    /\ faults = 0

-----------------------------------------------------------------------------
(* The lock *)

\* SET NX EX.  A request that finds the key set answers RESOURCE_BUSY and
\* changes nothing.
Acquire(p, r, todo) ==
    /\ request[p].pc = "idle"
    /\ lock[r] = NoRequest
    /\ lock' = [lock EXCEPT ![r] = p]
    /\ request' = [request EXCEPT ![p] = todo]
    /\ UNCHANGED <<listing, order, lapsed, overrun, faults>>

\* What the handler does once its section is over: the order that was
\* inserted is passed on, everything else is answered.
After(p) ==
    IF request[p].to = NoTarget /\ order[request[p].order].status # "none"
    THEN "booked" ELSE "answer"

\* A bug: the key is deleted whoever holds it.
ReleaseAny(p) ==
    /\ request[p].pc = "release"
    /\ lock' = [lock EXCEPT ![request[p].resource] = NoRequest]
    /\ Goto(p, After(p))
    /\ lapsed' = lapsed \ {p}
    /\ UNCHANGED <<listing, order, overrun, faults>>

\* The script deletes the key only if it still has this request's token.
Release(p) ==
    LET r == request[p].resource
    IN  /\ request[p].pc = "release"
        /\ lock' = [lock EXCEPT ![r] = IF @ = p THEN NoRequest ELSE @]
        /\ Goto(p, After(p))
        /\ lapsed' = lapsed \ {p}
        /\ UNCHANGED <<listing, order, overrun, faults>>

\* An error of the release is logged and swallowed: the key stays until its
\* time is up.
ReleaseFails(p) ==
    /\ request[p].pc = "release"
    /\ faults < MaxFaults
    /\ faults' = faults + 1
    /\ Goto(p, After(p))
    /\ lapsed' = lapsed \ {p}
    /\ UNCHANGED <<listing, lock, order, overrun>>

InSection(p, r) == request[p].pc \in Section /\ request[p].resource = r

\* The time to live is over, whether the holder is slow, gone or failed to
\* release.
Lapse(r) ==
    LET p == lock[r]
    IN  /\ p # NoRequest
        /\ lock' = [lock EXCEPT ![r] = NoRequest]
        /\ IF InSection(p, r)
           THEN lapsed' = lapsed \cup {p} /\ overrun' = overrun \cup {r}
           ELSE UNCHANGED <<lapsed, overrun>>
        /\ UNCHANGED <<listing, order, request, faults>>

-----------------------------------------------------------------------------
(* OrdersService.create and GpuResourcesService.setListingStatus *)

\* Mongoose chooses the _id of the new order before it is sent.
Book(p, r, o) ==
    /\ order[o].status = "none"
    /\ \A q \in Requests : request[q].order # o
    /\ Acquire(p, r, [pc |-> "find", resource |-> r, order |-> o, to |-> NoTarget])

SetListingStatus(p, r, to) ==
    Acquire(p, r, [pc |-> "find", resource |-> r, order |-> NoOrder, to |-> to])

\* create wants an online resource; setListingStatus stops when there is
\* nothing to change, and looks at orders only when it takes one off.
Find(p) ==
    LET r == request[p].resource
        to == request[p].to
    IN  /\ request[p].pc = "find"
        /\ Goto(p, CASE to = NoTarget /\ listing[r] # "online" -> "release"
                     [] to = listing[r] -> "release"
                     [] to = "online" /\ listing[r] # "online" -> "save"
                     [] OTHER -> "expire")
        /\ UNCHANGED <<listing, lock, order, lapsed, overrun, faults>>

ExpireDue(p) ==
    /\ request[p].pc = "expire"
    /\ Expire(ActiveOn(request[p].resource))
    /\ Goto(p, "check")
    /\ UNCHANGED <<listing, lock, lapsed, overrun, faults>>

\* A bug: an active order does not keep the resource from going offline.
CheckActiveForOrders(p) ==
    /\ request[p].pc = "check"
    /\ Goto(p, IF request[p].to # NoTarget THEN "save"
               ELSE IF ActiveOn(request[p].resource) # {} THEN "release" ELSE "insert")
    /\ UNCHANGED <<listing, lock, order, lapsed, overrun, faults>>

CheckActive(p) ==
    /\ request[p].pc = "check"
    /\ Goto(p, IF ActiveOn(request[p].resource) # {} THEN "release"
               ELSE IF request[p].to = NoTarget THEN "insert" ELSE "save")
    /\ UNCHANGED <<listing, lock, order, lapsed, overrun, faults>>

\* The unique index one_active_order_per_gpu refuses a second active order;
\* the duplicate key error is answered as GPU_RESOURCE_RENTED.
Insert(p) ==
    LET r == request[p].resource
    IN  /\ request[p].pc = "insert"
        /\ IF ActiveOn(r) = {}
           THEN order' = [order EXCEPT ![request[p].order] =
                            [status |-> "active", resource |-> r, left |-> Duration]]
           ELSE UNCHANGED order
        /\ Goto(p, "release")
        /\ UNCHANGED <<listing, lock, lapsed, overrun, faults>>

\* resource.save() writes the one field that was assigned.
SaveListing(p) ==
    /\ request[p].pc = "save"
    /\ listing' = [listing EXCEPT ![request[p].resource] = request[p].to]
    /\ Goto(p, "release")
    /\ UNCHANGED <<lock, order, lapsed, overrun, faults>>

-----------------------------------------------------------------------------
(* The ends of an order.  None of them takes the lock: the filter on the   *)
(* status makes each one statement.                                        *)

\* A bug: the filter of the update is not the active order but any that was booked.
EndAnyOrder(p, o, status) ==
    /\ request[p].pc = "idle"
    /\ order[o].status # "none"
    /\ Becomes(o, status)
    /\ request' = [request EXCEPT ![p] = [Idle EXCEPT !.pc = "ended", !.order = o]]
    /\ UNCHANGED <<listing, lock, lapsed, overrun, faults>>

\* findOneAndUpdate of the active order; otherwise the order is read again,
\* to tell a repeated request from a conflict.
EndOrder(p, o, status) ==
    /\ request[p].pc = "idle"
    /\ IF order[o].status = "active" THEN Becomes(o, status) ELSE UNCHANGED order
    /\ order[o].status \in {"active", status}
    /\ request' = [request EXCEPT ![p] = [Idle EXCEPT !.pc = "ended", !.order = o]]
    /\ UNCHANGED <<listing, lock, lapsed, overrun, faults>>

ReturnOrder(p, o) == EndOrder(p, o, "returned")

CancelOrder(p, o) == EndOrder(p, o, "cancelled")

\* The interval of every API instance.
ExpireDueOrders ==
    /\ \E o \in Orders : Due(o)
    /\ Expire(Orders)
    /\ UNCHANGED <<listing, lock, request, lapsed, overrun, faults>>

-----------------------------------------------------------------------------
(* The environment *)

Answer(p) ==
    /\ request[p].pc = "answer"
    /\ request' = [request EXCEPT ![p] = Idle]
    /\ UNCHANGED <<listing, lock, order, lapsed, overrun, faults>>

\* An API instance dies: its handlers are gone, their locks and documents stay.
Crash(p) ==
    /\ request[p].pc # "idle"
    /\ faults < MaxFaults
    /\ faults' = faults + 1
    /\ request' = [request EXCEPT ![p] = Idle]
    /\ lapsed' = lapsed \ {p}
    /\ UNCHANGED <<listing, lock, order, overrun>>

Elapsed == [o \in Orders |-> [order[o] EXCEPT !.left = IF @ = 0 THEN 0 ELSE @ - 1]]

InTheSection(p) ==
    Find(p) \/ ExpireDue(p) \/ CheckActive(p) \/ Insert(p) \/ SaveListing(p) \/ Release(p)

-----------------------------------------------------------------------------
(* Properties *)

\* Only the holder of a lock releases it: of two handlers in a section of
\* the same resource, one has outlived its lock, also when a third one that
\* had outlived its own has released in between.
SectionIsExclusive ==
    \A p, q \in Requests : \A r \in Resources :
        (p # q /\ InSection(p, r) /\ InSection(q, r)) => (p \in lapsed \/ q \in lapsed)

\* A resource is not taken offline under an active order, and none is
\* created on one that is offline, although both handlers look first and
\* write later: a lock that lapses in a section is the only way to it.
ActiveOrderIsListed ==
    \A o \in Orders :
        order[o].status = "active" =>
            (listing[order[o].resource] = "online" \/ order[o].resource \in overrun)
=============================================================================
