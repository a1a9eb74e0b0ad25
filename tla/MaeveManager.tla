---------------------------- MODULE MaeveManager -----------------------------
(***************************************************************************)
(* The MaEVe manager processes of one charge station: the routers, the     *)
(* handlers, the three synchronisation loops, the administration API and   *)
(* the Firestore documents that they share.  Firestore makes each read and *)
(* each write of a document atomic and nothing more.                       *)
(*                                                                         *)
(* Every setting, every certificate and the trigger is an item of one      *)
(* table: its value, its status, and whether its SendAfter time is yet to  *)
(* come.  A page of the loops holds the one station.                       *)
(***************************************************************************)
EXTENDS MaeveHandlers, Integers, FiniteSets, SequencesExt

CONSTANTS
  Managers,     \* the manager processes that share the subscription
  Names,        \* setting names
  Unparsable,   \* those that are no OCPP 2.0.1 component and variable
  Values,       \* setting values
  Leaf, Root,   \* certificates to sign and to install
  Triggers,     \* messages that the API may trigger
  Plain,        \* those that OCPP 1.6 has itself
  WireLen,      \* calls on their way to the station, and results back
  Uses          \* what the API, the station and the faults do in a behaviour

ASSUME ManagerAssumption ==
  /\ Unparsable \subseteq Names /\ Plain \subseteq Triggers
  /\ WireLen \in Nat \ {0}

VARIABLES
  use,       \* the bounds of this behaviour
  details,   \* the station's OCPP version in the store, "" before it booted
  items,     \* the store's settings, certificates and trigger
  docs,      \* the store's transactions by id
  loop,      \* the state of each synchronisation loop
  worker,    \* the message each manager is handling
  inbox,     \* messages delivered to each manager
  wire,      \* calls sent to the station
  down,      \* managers that panicked
  spent,     \* what has been used of the bounds
  asked,     \* the station's calls; a call's id is its place here
  waiting,   \* the call whose answer the station waits for, or 0
  \* History.
  answers,   \* what was emitted for each of the station's calls
  lost,      \* calls that died with a manager, or with a failing broker
  told,      \* statuses the station or the API gave to an item's value
  sent,      \* items sent since they were asked for
  overlapped \* a transaction was written between another's read and write

store   == <<details, items, docs>>
station == <<asked, waiting, wire>>
history == <<answers, lost, told, sent, overlapped>>
vars    == <<use, store, loop, worker, inbox, down, spent, station, history>>

Certificates == {Leaf, Root}
Keys         == Names \cup Certificates \cup {"trigger"}
Loops        == {"settings", "certificates", "triggers"}

\* The keys of the document that a loop lists.
KeysOf(k) == CASE k = "settings"     -> Names
               [] k = "certificates" -> Certificates
               [] k = "triggers"     -> {"trigger"}

Item(v, s, after) == [value |-> v, status |-> s, after |-> after]
NoItem            == Item("", "", FALSE)
NoDoc             == [started |-> FALSE, updates |-> 0, ended |-> 0, outlet |-> FALSE,
                      energy |-> FALSE, readings |-> {}, exists |-> FALSE]
Resting           == [at |-> "rest", todo |-> {}, batch |-> {}]
Idle              == [steps |-> <<>>, msg |-> <<>>, seen |-> <<>>, doc |-> NoDoc]

Spend(what) == /\ spent[what] < use[what]
               /\ spent' = [spent EXCEPT ![what] = @ + 1]

-----------------------------------------------------------------------------
(* The store.                                                              *)

\* SendAfter is not among the fields written.
UpdateChargeStationSettings(n, v, s) == [items EXCEPT ![n] = Item(v, s, FALSE)]

UpdateChargeStationInstallCertificates(c, s, after) ==
  [items EXCEPT ![c] = Item(c, s, after)]

SetChargeStationTriggerMessage(t, s, after) ==
  [items EXCEPT !["trigger"] = Item(t, s, after)]

DeleteChargeStationSettings ==
  [k \in Keys |-> IF k \in Names THEN NoItem ELSE items[k]]

DeleteChargeStationTriggerMessage == [items EXCEPT !["trigger"] = NoItem]

\* A record that is not there is made; one that is keeps what it holds.
CreateTransaction(doc, id, outlet) ==
  [doc EXCEPT !.exists = TRUE, !.started = TRUE, !.readings = @ \cup {id},
              !.outlet = @ \/ outlet]

\* Mutant of UpdateTransaction: the meter values are replaced.
UpdateTransactionAnew(doc, id) ==
  [doc EXCEPT !.exists = TRUE, !.updates = @ + 1, !.readings = {id}]

UpdateTransaction(doc, id) ==
  [doc EXCEPT !.exists = TRUE, !.updates = @ + 1, !.readings = @ \cup {id}]

EndTransaction(doc, id, seqNo, energy) ==
  [doc EXCEPT !.exists = TRUE, !.ended = seqNo, !.readings = @ \cup {id},
              !.energy = @ \/ energy]

-----------------------------------------------------------------------------
(* The administration API.                                                 *)

\* An API call writes an item and forgets that it was sent before.
Ask(k) == sent' = sent \ {x \in sent : x[1] = k}

ReconfigureChargeStation(n, v) ==
  /\ <<n, v>> \in use.choices /\ Spend("settings")
  /\ items' = UpdateChargeStationSettings(n, v, "Pending")
  /\ Ask(n)
  /\ UNCHANGED <<use, details, docs, loop, worker, inbox, down, station,
                 answers, lost, told, overlapped>>

InstallChargeStationCertificates(c, s) ==
  /\ Spend("certificates")
  /\ items' = UpdateChargeStationInstallCertificates(c, s, FALSE)
  /\ told' = told \cup {<<c, c, s>>}
  /\ Ask(c)
  /\ UNCHANGED <<use, details, docs, loop, worker, inbox, down, station,
                 answers, lost, overlapped>>

TriggerChargeStation(t) ==
  /\ Spend("triggers")
  /\ items' = SetChargeStationTriggerMessage(t, "Pending", FALSE)
  /\ Ask("trigger")
  /\ UNCHANGED <<use, details, docs, loop, worker, inbox, down, station,
                 answers, lost, told, overlapped>>

-----------------------------------------------------------------------------
(* Emitting a message, and a manager's end.                                *)

\* The gateway buffers a bounded number of calls for the station.
Emitted(call) == IF Len(wire) < WireLen THEN Append(wire, call) ELSE wire

\* A panic of any goroutine ends the process: what it was handling and what
\* was delivered to it is lost.
Panic(m) ==
  /\ down' = down \cup {m}
  /\ worker' = [worker EXCEPT ![m] = Idle]
  /\ loop' = [loop EXCEPT ![m] = [k \in Loops |-> Resting]]
  /\ inbox' = [inbox EXCEPT ![m] = <<>>]
  /\ LET dead == {x \in ToSet(inbox[m]) : x.type = "Call"}
                   \cup IF worker[m].msg # <<>> /\ worker[m].msg[1].type = "Call"
                          THEN {worker[m].msg[1]} ELSE {}
     IN  lost' = lost \cup {x.id : x \in dead}
  /\ UNCHANGED <<use, store, station, answers, told, sent, overlapped>>

Restart(m) ==
  /\ m \in down /\ Spend("restarts")
  /\ down' = down \ {m}
  /\ UNCHANGED <<use, store, loop, worker, inbox, station, history>>

-----------------------------------------------------------------------------
(* The synchronisation loops.  A run lists the pending items, looks up the *)
(* station's version, and for each item that is due writes back what it    *)
(* read, with a new SendAfter, and sends it.                               *)

\* What a loop's run takes from the page it lists.
Due(k) == {x \in KeysOf(k) :
             CASE k = "settings"     -> items[x].status = "Pending"
               [] k = "certificates" -> items[x].status \notin {"", "Accepted"}
               [] k = "triggers"     -> items[x].status # ""}

Entry(x) == [key |-> x, value |-> items[x].value, status |-> items[x].status]

\* A run that finds an item looks up the details, also when the item has to
\* wait; only those whose time has come are written back and sent.
List(m, k) ==
  /\ m \notin down /\ loop[m][k].at = "rest"
  /\ Due(k) # {}
  /\ loop' = [loop EXCEPT ![m][k] =
       [at |-> "details", todo |-> {Entry(x) : x \in {y \in Due(k) : ~items[y].after}},
        batch |-> {}]]
  /\ UNCHANGED <<use, store, worker, inbox, down, spent, station, history>>

\* Without runtime details, and when their lookup fails, the settings and
\* certificates loops dereference nil and the triggers loop returns.
LookupDetails(m, k, fails) ==
  /\ loop[m][k].at = "details"
  /\ IF fails THEN details # "" /\ Spend("faults") ELSE UNCHANGED spent
  /\ IF (details = "" \/ fails) /\ k # "triggers"
       THEN Panic(m)
       ELSE /\ loop' = [loop EXCEPT ![m][k] =
                 IF details = "" \/ fails \/ @.todo = {} THEN Resting
                                                          ELSE [@ EXCEPT !.at = "write"]]
            /\ UNCHANGED <<use, store, worker, inbox, down, station, history>>

\* The value, and for a certificate the status, are those read by List.
WriteBack(k, e) ==
  CASE k = "settings"     -> UpdateChargeStationSettings(e.key, e.value, e.status)
    [] k = "certificates" -> UpdateChargeStationInstallCertificates(e.key, e.status, TRUE)
    [] k = "triggers"     -> SetChargeStationTriggerMessage(e.value, "Pending", TRUE)

\* Mutant of Sendable: the names of a 1.6 station are parsed too.
SendableByName(k, e) == ~(k = "settings" /\ e.key \in Unparsable)

\* The settings of a 2.0.1 station go in one call, without those whose name
\* does not parse; all else goes item by item.
Sendable(k, e) == ~(k = "settings" /\ details = "2.0.1" /\ e.key \in Unparsable)

Together(k) == k = "settings" /\ details = "2.0.1"

\* A failing write skips the item.
Write(m, k, e, fails) ==
  /\ loop[m][k].at = "write" /\ e \in loop[m][k].todo
  /\ LET l    == loop[m][k]
         todo == l.todo \ {e}
     IN  loop' = [loop EXCEPT ![m][k] =
           [at    |-> IF Together(k) /\ todo # {} THEN "write" ELSE "send",
            todo  |-> todo,
            batch |-> IF fails \/ ~Sendable(k, e) THEN l.batch ELSE l.batch \cup {e}]]
  /\ items' = IF fails THEN items ELSE WriteBack(k, e)
  /\ IF fails THEN Spend("faults") ELSE UNCHANGED spent
  /\ UNCHANGED <<use, details, docs, worker, inbox, down, station, history>>

\* The call that carries a batch, by the loop and the station's version.
CallFor(k, batch) ==
  [action |-> CASE k = "settings" -> IF details = "1.6" THEN "ChangeConfiguration"
                                                        ELSE "SetVariables"
                [] k = "certificates" -> IF \E e \in batch : e.key = Leaf
                                           THEN "CertificateSigned" ELSE "InstallCertificate"
                [] k = "triggers" -> IF details = "1.6" /\ \E e \in batch : e.value \in Plain
                                       THEN "TriggerMessage16" ELSE "TriggerMessage",
   items  |-> {<<e.key, e.value>> : e \in batch}]

\* A call that cannot be emitted is logged; the item stays as written.
Send(m, k, fails) ==
  /\ loop[m][k].at = "send"
  /\ LET l == loop[m][k]
     IN  /\ IF l.batch = {} \/ fails
              THEN UNCHANGED <<wire, sent>>
              ELSE /\ wire' = Emitted(CallFor(k, l.batch))
                   /\ sent' = sent \cup {<<e.key, e.value>> : e \in l.batch}
         /\ loop' = [loop EXCEPT ![m][k] =
              IF l.todo = {} THEN Resting ELSE [l EXCEPT !.at = "write", !.batch = {}]]
         /\ IF fails THEN l.batch # {} /\ Spend("faults") ELSE UNCHANGED spent
  /\ UNCHANGED <<use, store, worker, inbox, down, asked, waiting, answers, lost, told,
                 overlapped>>

Sync(m, k) == \/ List(m, k)
              \/ LookupDetails(m, k, FALSE)
              \/ \E e \in loop[m][k].todo : Write(m, k, e, FALSE)
              \/ Send(m, k, FALSE)

SyncSettings(m)     == Sync(m, "settings")
SyncCertificates(m) == Sync(m, "certificates")
SyncTriggers(m)     == Sync(m, "triggers")

\* A store or broker that fails a loop.
SyncFails(m, k) == \/ LookupDetails(m, k, TRUE)
                   \/ \E e \in loop[m][k].todo : Write(m, k, e, TRUE)
                   \/ Send(m, k, TRUE)

\* The retry interval of an item has passed: its SendAfter is before now.
RetryAfter(x) ==
  /\ items[x].after
  /\ items' = [items EXCEPT ![x].after = FALSE]
  /\ UNCHANGED <<use, details, docs, loop, worker, inbox, down, spent, station, history>>

-----------------------------------------------------------------------------
(* The charge station, behind the gateway.                                 *)

Call(id, action, arg, tx) == [type |-> "Call", id |-> id, action |-> action, arg |-> arg,
                              tx |-> tx, items |-> {}, status |-> ""]
Result(c, s) == [type |-> "CallResult", id |-> 0, action |-> c.action, arg |-> "", tx |-> 0,
                 items |-> c.items, status |-> s]

\* The 1.6 starts that the station had a result for.
Started == {i \in DOMAIN asked : asked[i].action = "StartTransaction" /\ answers[i] = "result"}

\* A 1.6 transaction is named by the call that started it, or -1 (here 0)
\* when its token is unknown; the 2.0.1 station names its own.
TransactionId(id, action, arg) ==
  CASE action = "StartTransaction" -> IF arg = "known" THEN id ELSE 0
    [] action = "StopTransaction" /\ Started # {} -> asked[Max(Started)].tx
    [] OTHER -> 1

\* The calls the station may make next: it boots first, updates and ends a
\* transaction that it started, and may repeat its last call.
Asked(action, arg) == \E x \in ToSet(asked) : x.action = action /\ x.arg = arg
NextCalls ==
  IF asked = <<>>
    THEN {<<"BootNotification", "">>}
    ELSE {<<Last(asked).action, Last(asked).arg>>} \cup
         {x \in use.calls :
            CASE x[1] = "TransactionEvent" /\ x[2] # "Started" ->
                   Asked("TransactionEvent", "Started")
              [] x[1] = "StopTransaction" -> Started # {}
              [] OTHER -> TRUE}

\* The subscription is shared: each message goes to one manager.
Deliver(m, msg) == inbox' = [inbox EXCEPT ![m] = Append(@, msg)]

StationCalls(m, x) ==
  /\ waiting = 0 /\ Len(asked) < use.maxCalls
  /\ x \in NextCalls
  /\ LET c == Call(Len(asked) + 1, x[1], x[2],
                   TransactionId(Len(asked) + 1, x[1], x[2]))
     IN  /\ asked' = Append(asked, c)
         /\ answers' = Append(answers, "")
         /\ waiting' = c.id
         /\ IF m \in down THEN lost' = lost \cup {c.id} /\ UNCHANGED inbox
                          ELSE Deliver(m, c) /\ UNCHANGED lost
  /\ UNCHANGED <<use, store, loop, worker, down, spent, wire, told, sent, overlapped>>

\* The station gives up waiting and will make its next call.
StationTimesOut ==
  /\ waiting # 0
  /\ IF waiting \in lost THEN UNCHANGED spent ELSE Spend("timeouts")
  /\ waiting' = 0
  /\ UNCHANGED <<use, store, loop, worker, inbox, down, asked, wire, history>>

\* The statuses of a result; the 2.0.1 messages of a 1.6 station travel in
\* data transfers, whose response may come without data.
Statuses(action) ==
  CASE action = "ChangeConfiguration" -> use.statuses
    [] action = "InstallCertificate"  -> {"Accepted", "Rejected", "Failed"}
    [] OTHER                          -> {"Accepted", "Rejected"}
NoData(action) == IF /\ use.version = "1.6"
                     /\ action \in {"CertificateSigned", "InstallCertificate", "TriggerMessage"}
                    THEN {"NoData"} ELSE {}

IsResult(msg) == msg.type = "CallResult"

StationAnswers(m, s) ==
  /\ wire # <<>> /\ m \notin down
  /\ Len(SelectSeq(inbox[m], IsResult)) < WireLen
  /\ s \in Statuses(Head(wire).action) \cup NoData(Head(wire).action)
  /\ Deliver(m, Result(Head(wire), s))
  /\ told' = told \cup {<<i[1], i[2], s>> : i \in Head(wire).items}
  /\ wire' = Tail(wire)
  /\ UNCHANGED <<use, store, loop, worker, down, spent, asked, waiting, answers, lost, sent,
                 overlapped>>

\* The station is away, or answers with an error, which the manager drops.
CallIsLost ==
  /\ wire # <<>>
  /\ wire' = Tail(wire)
  /\ UNCHANGED <<use, store, loop, worker, inbox, down, spent, asked, waiting, history>>

-----------------------------------------------------------------------------
(* A manager's router and handlers.                                        *)

Take(m) ==
  /\ m \notin down /\ worker[m] = Idle /\ inbox[m] # <<>>
  /\ LET msg    == Head(inbox[m])
         routes == IF use.version = "1.6" THEN CallRoutes16(msg.arg) ELSE CallRoutes201(msg.arg)
         steps  == IF msg.type = "Call" THEN RouteCall(routes, msg.action, msg.arg # "invalid")
                                        ELSE CallResultRoutes(msg.status)[msg.action]
     IN  worker' = [worker EXCEPT ![m] =
           IF steps = <<>> THEN Idle ELSE [Idle EXCEPT !.steps = steps, !.msg = <<msg>>]]
  /\ inbox' = [inbox EXCEPT ![m] = Tail(@)]
  /\ UNCHANGED <<use, store, loop, down, spent, station, history>>

At(m, step) == worker[m].steps # <<>> /\ Head(worker[m].steps) = step
Msg(m)      == worker[m].msg[1]
Done(w)     == IF Len(w.steps) = 1 THEN Idle ELSE [w EXCEPT !.steps = Tail(@)]
Advance(m)  == worker' = [worker EXCEPT ![m] = Done(@)]

\* A step that changes the items only.
ItemStep(m, step, new) ==
  /\ At(m, step) /\ Advance(m)
  /\ items' = new
  /\ UNCHANGED <<use, details, docs, loop, inbox, down, spent, station, history>>

SetChargeStationRuntimeDetails(m) ==
  /\ At(m, "SetDetails") /\ Advance(m)
  /\ details' = use.version
  /\ UNCHANGED <<use, items, docs, loop, inbox, down, spent, station, history>>

LookupChargeStationSettings(m) ==
  /\ At(m, "ReadSettings")
  /\ worker' = [worker EXCEPT ![m] = [Done(@) EXCEPT !.seen = [n \in Names |-> items[n]]]]
  /\ UNCHANGED <<use, store, loop, inbox, down, spent, station, history>>

\* All the settings are written back as they were read, if one of them was
\* waiting for the boot.
ClearRebootRequired(m) ==
  LET seen == worker[m].seen
      new  == [n \in Keys |->
                IF n \notin Names \/ seen[n] = NoItem THEN items[n]
                ELSE IF seen[n].status = "RebootRequired"
                  THEN Item(seen[n].value, "Accepted", FALSE) ELSE seen[n]]
  IN  /\ At(m, "ClearRebootRequired")
      /\ ItemStep(m, "ClearRebootRequired",
           IF \E n \in Names : seen[n].status = "RebootRequired" THEN new ELSE items)

LookupToken(m) ==
  /\ At(m, "LookupToken") /\ Advance(m)
  /\ UNCHANGED <<use, store, loop, inbox, down, spent, station, history>>

\* The first read is StopTransaction's own, the second that of the store,
\* whose record is the one changed.
FindTransaction(m) ==
  /\ LET found == docs[Msg(m).tx]
     IN  \/ /\ At(m, "ReadTransaction")
            /\ worker' = [worker EXCEPT ![m] = [Done(@) EXCEPT !.seen = found]]
         \/ /\ At(m, "FindTransaction")
            /\ worker' = [worker EXCEPT ![m] = [Done(@) EXCEPT !.doc = found]]
  /\ UNCHANGED <<use, store, loop, inbox, down, spent, station, history>>

\* StopTransaction adds the energy used when the station sent no end reading
\* and the record it saw has a begin reading of the outlet, which the one of
\* StartTransaction, without a location, is not.
StopTransaction(seen, doc, c) ==
  EndTransaction(doc, c.id, IF seen.exists THEN seen.updates + 1 ELSE -1,
                 c.arg = "reading" \/ seen.outlet)

\* An end event stores the meter values it brings, an end reading of the
\* outlet among them or not.
Written(seen, doc, c) ==
  CASE c.action = "StartTransaction" -> CreateTransaction(doc, c.id, FALSE)
    [] c.action = "StopTransaction"  -> StopTransaction(seen, doc, c)
    [] c.arg = "Started"             -> CreateTransaction(doc, c.id, TRUE)
    [] c.arg = "Updated"             -> UpdateTransaction(doc, c.id)
    [] OTHER                         -> EndTransaction(doc, c.id, 2, c.arg = "Ended")

\* The record is replaced by the one read, changed.
WriteTransaction(m) ==
  /\ At(m, "WriteTransaction") /\ Advance(m)
  /\ docs' = [docs EXCEPT ![Msg(m).tx] = Written(worker[m].seen, worker[m].doc, Msg(m))]
  /\ overlapped' = (overlapped \/ docs[Msg(m).tx] # worker[m].doc)
  /\ UNCHANGED <<use, details, items, loop, inbox, down, spent, station, answers, lost,
                 told, sent>>

\* The cost of an ended transaction is that of the end reading of its record;
\* without one the error is logged and the result has no cost.
CalculateCost(m) ==
  /\ At(m, "CalculateCost")
  /\ worker' = [worker EXCEPT ![m] = [Done(@) EXCEPT !.doc = docs[Msg(m).tx]]]
  /\ UNCHANGED <<use, store, loop, inbox, down, spent, station, history>>

\* A signed certificate is stored to be sent; when the provider or the store
\* fails the station is told so and nothing is stored.
StoreCertificate(m) ==
  \E new \in {items, UpdateChargeStationInstallCertificates(Leaf, "Pending", FALSE)} :
    ItemStep(m, "StoreCertificate", new)

\* Mutant of SetStatus: the status is stored beside the value that is there.
SetStatusOfStored(m) ==
  /\ At(m, "SetStatus")
  /\ \E i \in Msg(m).items :
       ItemStep(m, "SetStatus",
         UpdateChargeStationSettings(i[1], items[i[1]].value, Msg(m).status))

\* The result handlers store what the station said of what it was sent.
SetStatus(m) ==
  /\ At(m, "SetStatus")
  /\ \E i \in Msg(m).items :
       ItemStep(m, "SetStatus", UpdateChargeStationSettings(i[1], i[2], Msg(m).status))

\* When no setting was pending and one waits for a reboot the station is
\* asked to boot.
TriggerBoot(m) ==
  LET status == {worker[m].seen[n].status : n \in Names}
  IN  /\ At(m, "TriggerBoot") /\ Advance(m)
      /\ wire' = IF "Pending" \notin status /\ "RebootRequired" \in status
                   THEN Emitted([action |-> "TriggerMessage16", items |-> {}]) ELSE wire
      /\ UNCHANGED <<use, store, loop, inbox, down, spent, asked, waiting, history>>

DeleteSettings(m) == ItemStep(m, "DeleteSettings", DeleteChargeStationSettings)

\* A failed installation is pending again.
SetCertificateStatus(m) ==
  /\ At(m, "SetCertificateStatus")
  /\ \E i \in Msg(m).items :
       ItemStep(m, "SetCertificateStatus", UpdateChargeStationInstallCertificates(i[1],
         IF Msg(m).status = "Failed" THEN "Pending" ELSE Msg(m).status, FALSE))

DeleteTrigger(m) == ItemStep(m, "DeleteTrigger", DeleteChargeStationTriggerMessage)

RefuseTrigger(m) ==
  /\ At(m, "RefuseTrigger")
  /\ \E i \in Msg(m).items :
       ItemStep(m, "RefuseTrigger", SetChargeStationTriggerMessage(i[2], "NotImplemented", FALSE))

\* What the emitter publishes ends the station's wait for it.
Emit(m, answer) ==
  /\ answers' = [answers EXCEPT ![Msg(m).id] = answer]
  /\ waiting' = IF waiting = Msg(m).id THEN 0 ELSE waiting
  /\ worker' = [worker EXCEPT ![m] = Idle]
  /\ UNCHANGED <<use, store, loop, inbox, down, spent, asked, wire, lost, told, sent,
                 overlapped>>

\* Mutant of EmitResult: after the result the handler's error is emitted too.
EmitResultAndError(m) ==
  /\ At(m, "EmitResult")
  /\ answers' = [answers EXCEPT ![Msg(m).id] = "result"]
  /\ worker' = [worker EXCEPT ![m].steps = <<"EmitError">>]
  /\ UNCHANGED <<use, store, loop, inbox, down, spent, station, lost, told, sent, overlapped>>

EmitResult(m) ==
  /\ At(m, "EmitResult")
  /\ Emit(m, IF Msg(m).arg \in {"Ended", "EndedBare"} /\ ~worker[m].doc.energy
               THEN "no cost" ELSE "result")

EmitError(m) == At(m, "EmitError") /\ Emit(m, "error")

HandlerPanics(m) == At(m, "Panic") /\ Panic(m) /\ UNCHANGED spent

\* An error of a store or of the broker: a call is answered with an error,
\* unless that is what failed; a result is logged.
StepFails(m) ==
  /\ worker[m] # Idle
  /\ Head(worker[m].steps) \notin {"Panic", "StoreCertificate"}
  /\ Spend("faults")
  /\ LET last == Msg(m).type # "Call" \/ At(m, "EmitError")
     IN  /\ worker' = [worker EXCEPT ![m] =
              IF last THEN Idle ELSE [@ EXCEPT !.steps = <<"EmitError">>]]
         /\ lost' = IF At(m, "EmitError") THEN lost \cup {Msg(m).id} ELSE lost
  /\ UNCHANGED <<use, store, loop, inbox, down, station, answers, told, sent, overlapped>>

Handle(m) ==
  \/ SetChargeStationRuntimeDetails(m) \/ LookupChargeStationSettings(m)
  \/ ClearRebootRequired(m) \/ LookupToken(m)
  \/ FindTransaction(m) \/ WriteTransaction(m) \/ CalculateCost(m)
  \/ StoreCertificate(m) \/ SetStatus(m) \/ TriggerBoot(m) \/ DeleteSettings(m)
  \/ SetCertificateStatus(m) \/ DeleteTrigger(m) \/ RefuseTrigger(m)
  \/ EmitResult(m) \/ EmitError(m) \/ HandlerPanics(m)

-----------------------------------------------------------------------------
Init ==
  /\ use \in Uses
  /\ details = ""
  /\ items = [k \in Keys |-> NoItem]
  /\ docs = [i \in 0..use.maxCalls |-> NoDoc]
  /\ loop = [m \in Managers |-> [k \in Loops |-> Resting]]
  /\ worker = [m \in Managers |-> Idle]
  /\ inbox = [m \in Managers |-> <<>>]
  /\ wire = <<>> /\ down = Managers \ use.managers
  /\ spent = [x \in {"settings", "certificates", "triggers", "restarts", "faults",
                      "timeouts"} |-> 0]
  /\ asked = <<>> /\ waiting = 0
  /\ answers = <<>> /\ lost = {} /\ told = {} /\ sent = {} /\ overlapped = FALSE

Next ==
  \/ \E n \in Names, v \in Values : ReconfigureChargeStation(n, v)
  \/ \E c \in Certificates, s \in {"Pending", "Accepted"} : InstallChargeStationCertificates(c, s)
  \/ \E t \in Triggers : TriggerChargeStation(t)
  \/ \E m \in use.managers :
       \/ SyncSettings(m) \/ SyncCertificates(m) \/ SyncTriggers(m)
       \/ \E k \in Loops : SyncFails(m, k)
       \/ Take(m) \/ Handle(m) \/ StepFails(m) \/ Restart(m)
       \/ \E x \in NextCalls : StationCalls(m, x)
       \/ \E s \in {"Accepted", "Rejected", "RebootRequired", "Failed", "NoData"} :
            StationAnswers(m, s)
  \/ \E x \in Keys : RetryAfter(x)
  \/ StationTimesOut \/ CallIsLost

\* The managers run and time passes; nothing is promised of the station, of
\* the API or of whoever restarts a manager.
Fairness ==
  /\ \A m \in Managers : /\ WF_vars(Take(m) \/ Handle(m))
                         /\ WF_vars(SyncSettings(m))
                         /\ WF_vars(SyncCertificates(m))
                         /\ WF_vars(SyncTriggers(m))
  /\ WF_vars(\E x \in Keys : RetryAfter(x))

Spec == Init /\ [][Next]_vars /\ Fairness

-----------------------------------------------------------------------------
\* A status other than Pending is what the station said of the very value it
\* stands beside (or, for a certificate, what the API was given): sync loops
\* that write back what they read, late results and a boot that writes back
\* all settings never pair a value with another value's status.
StatusIsStations ==
  \A k \in Keys :
    LET i == items[k]
    IN  i.status \notin {"", "Pending"} =>
          \/ <<k, i.value, i.status>> \in told
          \/ i.status = "Accepted" /\ <<k, i.value, "RebootRequired">> \in told
          \/ i.status = "NotImplemented" /\ <<k, i.value, "Rejected">> \in told

EndReading(c) == c.arg \in {"Ended", "reading"}

\* When no two writes of a transaction overlapped, its record has the
\* reading of every event that the station was given a result for, counts
\* its updates, and was ended with the sequence number of a record that was
\* found.  An end that brought its end reading is answered with the cost, and
\* no other is unless the record has such a reading.  An answer that timed
\* out, an event sent again and a failed step do not lose one.
RecordComplete ==
  ~overlapped =>
    /\ \A i \in DOMAIN asked :
         LET c == asked[i]
         IN  c.action \in {"StartTransaction", "StopTransaction", "TransactionEvent"}
               /\ answers[i] \in {"result", "no cost"} =>
                 /\ i \in docs[c.tx].readings
                 /\ EndReading(c) => answers[i] = "result"
                 /\ EndReading(c) \/ (c.arg = "EndedBare" /\ answers[i] = "result")
                      => docs[c.tx].energy
    /\ \A d \in DOMAIN docs :
         /\ docs[d].updates = Cardinality({i \in docs[d].readings : asked[i].arg = "Updated"})
         /\ docs[d].ended # -1

\* A call is answered once: what was emitted for it is never followed by a
\* second answer, also when emitting the result or the error failed.
AnsweredOnce ==
  [][\A i \in DOMAIN answers : answers[i] # "" => answers'[i] = answers[i]
                                              /\ ~\E m \in Managers :
                                                   worker[m] # Idle /\ Msg(m).type = "Call"
                                                     /\ Msg(m).id = i]_vars

MaxCalls      == Max({u.maxCalls : u \in Uses})
Unanswered(i) == i \in DOMAIN answers /\ answers[i] = "" /\ i \notin lost

\* Every call that is delivered is answered with a result or an error,
\* unless its manager panicked, in this call's handler or elsewhere, or the
\* error could not be emitted either.  Calls of the store, of the broker and
\* of the certificate services, whose HTTP client has no timeout, are assumed
\* to return.
CallAnswered ==
  \A i \in 1..MaxCalls : Unanswered(i) ~> ~Unanswered(i)

Lying(k) ==
  /\ details # "" /\ down = Managers \ use.managers
  /\ items[k].status = "Pending" /\ <<k, items[k].value>> \notin sent
  /\ ~(details = "2.0.1" /\ k \in Unparsable)

\* Once the station has booted, an item that is due in the store is sent, or
\* is overtaken by a status, by its deletion or by a loop that writes back
\* the older value it had listed: no interleaving of loops, API and results
\* leaves it lying.  A name that does not parse is never sent.
PendingSent == \A k \in Keys : Lying(k) ~> ~Lying(k)
=============================================================================
