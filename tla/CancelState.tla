------------------------------ MODULE CancelState ------------------------------
(***************************************************************************)
(* Cancellation of payment complements (REP) and credit notes: the columns *)
(* of their rows, the requests in progress, the SAT behind the PAC         *)
(* (external), and the writes every handler shares.  A row is a payment,   *)
(* for its complement, or a credit note.                                   *)
(***************************************************************************)
EXTENDS Integers, FiniteSets

CONSTANTS Jobs, Consumers, NoJob, OpOf, MaxAttempts, MaxDeferrals, MaxVersion,
          Payments, Notes,
          MaxStamped,  \* bound: rows that are stamped in one behaviour
          Handlers,    \* requests of the two cancel functions that may be in progress
          Refreshers,  \* requests of refresh-cancellation-status
          DocOf,       \* the row each row of the queue is about
          User, NoRow, NoHandler,
          Faults       \* kinds of failure that may happen

VARIABLES queue, hold,
          row,      \* row[x]: the columns of payment or note x that matter here
          room,     \* the notes the cap of their invoice has room for
          req,      \* req[h]: a request of one of the cancel functions
          refresh,  \* refresh[f]: a request of refresh-cancellation-status
          sat,      \* sat[x]: what the PAC reports of the cancellation of x
          late      \* rows with an aborted request the PAC may still serve

Queue == INSTANCE CfdiRetryQueue

Rows == Payments \cup Notes

ASSUME CancelAssumption ==
    /\ Payments \cap Notes = {}
    /\ DocOf \in [Jobs -> Rows]
    /\ Queue!QueueAssumption
    /\ OpOf = [j \in Jobs |-> IF DocOf[j] \in Payments THEN "cancel_rep" ELSE "cancel_nc"]
    /\ User \notin Consumers /\ NoRow \notin Rows /\ NoHandler \notin Handlers
    /\ Faults \subseteq {"crash", "died", "config", "db", "enqueue"}

rowVars == <<row, room, req, refresh, sat, late>>

\* 'rejected' stands for 'expired' as well: both end a request and allow another.
Cancellation == {"none", "pending", "accepted", "rejected"}

\* known: the row has an id of the PAC; only a note stamped in test mode has none.
\* aged: the cancellation was requested more than seventy-two hours ago.
Row == [known: BOOLEAN, status: {"open", "stamped", "cancelled", "deleted"},
        cancel: Cancellation, aged: BOOLEAN]

FreeSlot == [pc |-> "idle", row |-> NoRow, caller |-> User, job |-> NoJob,
             token |-> 0, kind |-> "none"]

Resting == [pc |-> "idle", row |-> NoRow, job |-> NoJob, token |-> 0,
            prior |-> "none", aged |-> FALSE, next |-> "none"]

Slot == [pc: {"idle", "claim", "why", "config", "sent", "release", "reopen", "enqueue",
              "finish", "answered"},
         row: Rows \cup {NoRow}, caller: Consumers \cup {User}, job: Jobs \cup {NoJob},
         token: Nat,
         kind: Cancellation \cup {"ok", "progress", "error", "changed", "unavailable"}]

Query == [pc: {"idle", "asked", "write"}, row: Rows \cup {NoRow}, job: Jobs \cup {NoJob},
          token: Nat, prior: Cancellation, aged: BOOLEAN, next: Cancellation]

RowsOK ==
    /\ row \in [Rows -> Row]
    /\ room \subseteq Notes
    /\ req \in [Handlers -> Slot]
    /\ refresh \in [Refreshers -> Query]
    /\ sat \in [Rows -> Cancellation]
    /\ late \subseteq Rows

InitRows ==
    /\ \E stamped \in SUBSET Rows, stubs \in SUBSET Notes :
          /\ Cardinality(stamped) <= MaxStamped
          /\ row = [x \in Rows |->
                      [known |-> x \in stamped \ stubs,
                       status |-> IF x \in stamped THEN "stamped" ELSE "open",
                       cancel |-> "none", aged |-> FALSE]]
    /\ room = Notes
    /\ req = [h \in Handlers |-> FreeSlot]
    /\ refresh = [f \in Refreshers |-> Resting]
    /\ sat = [x \in Rows |-> "none"]
    /\ late = {}

-----------------------------------------------------------------------------
(* The guards of the database.                                             *)

\* enforce_credit_note_max runs on every change of cancellation_status that
\* leaves the note alive; it refuses it when complements or other notes of the
\* invoice have taken up the room.
CapRefuses(x, status) ==
    x \in Notes \ room /\ row[x].status # "cancelled" /\ status # "accepted"

\* Complements of the invoice are stamped and cancelled, other notes come and go.
RoomChanges(n) ==
    /\ row[n].status = "stamped"
    /\ room' = IF n \in room THEN room \ {n} ELSE room \cup {n}
    /\ UNCHANGED <<queue, hold, row, req, refresh, sat, late>>

\* prevent_payment_delete_when_rep_stamped lets go of a payment whose complement
\* was cancelled.
DeletePayment(p) ==
    /\ row[p].status = "cancelled"
    /\ row' = [row EXCEPT ![p].status = "deleted"]
    /\ UNCHANGED <<queue, hold, room, req, refresh, sat, late>>

\* The UPDATE that records what the SAT said has no condition but the id.
Record(x, status) ==
    row' = IF CapRefuses(x, status) \/ row[x].status = "deleted" THEN row
           ELSE [row EXCEPT ![x].cancel = status,
                            ![x].status = IF status = "accepted" THEN "cancelled" ELSE @]

\* The release of a claim, conditioned on one that is still 'pending'; its result
\* is not looked at.
Release(x) ==
    \/ row' = IF row[x].cancel = "pending" /\ ~CapRefuses(x, "none")
              THEN [row EXCEPT ![x].cancel = "none"] ELSE row
    \/ "db" \in Faults /\ UNCHANGED row

\* Mutant of Claimable: a claim that is in place does not keep another request out.
ClaimableInProgress(x) == row[x].status = "stamped" /\ row[x].cancel # "accepted"

\* The predicate of the claims: one request at a time, also after a rejection.
Claimable(x) == row[x].status = "stamped" /\ row[x].cancel \in {"none", "rejected"}

-----------------------------------------------------------------------------
(* The SAT.                                                                *)

\* A request that arrives: a document under way or cancelled stays so.
Served(x) ==
    IF sat[x] \in {"accepted", "pending"} THEN {sat[x]} ELSE {"pending", "accepted", "rejected"}

Reaches(x) == \E s \in Served(x) : sat' = [sat EXCEPT ![x] = s]

SatDecides(x) ==
    /\ sat[x] = "pending"
    /\ \E s \in {"accepted", "rejected"} : sat' = [sat EXCEPT ![x] = s]
    /\ UNCHANGED <<queue, hold, row, room, req, refresh, late>>

SatServesLate(x) ==
    /\ x \in late
    /\ late' = late \ {x}
    /\ UNCHANGED sat \/ Reaches(x)
    /\ UNCHANGED <<queue, hold, row, room, req, refresh>>

\* Seventy-two hours pass; nothing in progress lasts that long.
Age(x) ==
    /\ row[x].cancel = "pending" /\ ~row[x].aged
    /\ \A h \in Handlers : req[h].row # x
    /\ \A f \in Refreshers : refresh[f].row # x
    /\ x \notin late
    /\ row' = [row EXCEPT ![x].aged = TRUE]
    /\ UNCHANGED <<queue, hold, room, req, refresh, sat, late>>

Documents(x) ==
    \/ x \in Notes /\ RoomChanges(x)
    \/ x \in Payments /\ DeletePayment(x)
    \/ SatDecides(x) \/ SatServesLate(x) \/ Age(x)

-----------------------------------------------------------------------------
(* What every handler does.                                                *)

\* assertFiscalRetryContext: an internal call still holds the lease of its row.
LeaseCurrent(job, token) ==
    job # NoJob => queue[job].status = "processing" /\ queue[job].updatedAt = token

Serves(h, pc) == req[h].pc = pc

GoTo(h, pc) == req' = [req EXCEPT ![h].pc = pc]

\* The response: 2xx, a 409, or another error.
Answer(h, kind) ==
    req' = [req EXCEPT ![h] = IF @.caller = User THEN FreeSlot
                              ELSE [@ EXCEPT !.pc = "answered", !.kind = kind]]

\* A request begins, or is refused at once (rows the caller would not wait for
\* and requests that change nothing are left out).
Start(h, x, caller, job, token) ==
    /\ Serves(h, "idle")
    /\ req' = [req EXCEPT ![h] = [pc |-> "claim", row |-> x, caller |-> caller,
                                  job |-> job, token |-> token, kind |-> "none"]]

\* The configuration is refused, the key is missing, or an internal call lost its lease.
ConfigFails(h) ==
    /\ Serves(h, "config")
    /\ \E kind \in {"error", "changed", "unavailable"} :
          /\ kind # "error" => req[h].job # NoJob
          /\ \/ "config" \in Faults
             \/ kind = "changed" /\ ~LeaseCurrent(req[h].job, req[h].token)
          /\ Answer(h, kind)
    /\ Release(req[h].row)
    /\ UNCHANGED <<queue, hold, room, refresh, sat, late>>
=============================================================================
