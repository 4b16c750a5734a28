---------------------------- MODULE ClockingForms ----------------------------
(***************************************************************************)
(* The four forms by which attendance is clocked: the page that a QR code  *)
(* opens (scan), the page of an organisation's link (checkin), and the     *)
(* camera and location screens of the app (camera, gps). Each locates the  *)
(* telephone, sends the clocking, shows the answer, and is ready again     *)
(* after a while. The server clocks in and out in turn, so that a clocking *)
(* sent twice undoes itself.                                               *)
(***************************************************************************)
EXTENDS Integers, SequencesExt

CONSTANTS
  MaxClockings,    \* bound on the clockings on their way
  MaxTimers        \* bound on the timers that have not gone off

Web == {"scan", "checkin"}
App == {"camera", "gps"}

VARIABLES
  form,       \* which of them is open
  geofence,   \* whether the organisation wants the coordinates
  step,       \* what the form shows
  busy,       \* submitting of the scan page, scannedRef of the camera
  located,    \* whether the location screen has coordinates
  locating,   \* locations it waits for
  clockings,  \* the clockings on their way, and whether this form waits for the answer
  timers,     \* how many will open the form again, and how many leave the screen
  reopened    \* history: with a clocking on its way the form was left, or opened by a
              \* timer of an earlier one or by a location

vars == <<form, geofence, step, busy, located, locating, clockings, timers, reopened>>

TypeOK ==
  /\ form \in Web \cup App
  /\ step \in {"input", "locating", "sending", "success", "error", "left"}
  /\ {geofence, busy, located, reopened} \subseteq BOOLEAN
  /\ locating \in 0..2
  /\ \A i \in DOMAIN clockings : clockings[i] \in [sent : BOOLEAN, awaited : BOOLEAN]
  /\ DOMAIN timers = {"open", "leave"}

(* The location screen asks for the location when it opens.                *)
AtFirst == IF form = "gps" /\ geofence THEN "locating" ELSE "input"

Init ==
  /\ form \in Web \cup App /\ geofence \in BOOLEAN
  /\ step = AtFirst
  /\ locating = (IF step = "locating" THEN 1 ELSE 0)
  /\ busy = FALSE /\ located = FALSE
  /\ clockings = <<>>
  /\ timers = [t \in {"open", "leave"} |-> 0]
  /\ reopened = FALSE

Set(timer) == timers[timer] < MaxTimers /\ timers' = [timers EXCEPT ![timer] = @ + 1]

(* With no clocking on its way, whatever opened the form is forgotten.     *)
Remember(opened) == reopened' = (clockings' # <<>> /\ (reopened \/ opened))

Free == ~(form \in {"scan", "camera"} /\ busy)

(* The button, the Enter key, or a code before the camera. The location    *)
(* screen has located by then, and may send again after an error.          *)
Submit ==
  /\ Len(clockings) < MaxClockings
  /\ step = "input" \/ (form = "gps" /\ step = "error")
  /\ Free
  /\ form = "gps" /\ geofence => located
  /\ busy' = TRUE
  /\ step' = IF form = "gps" THEN "sending" ELSE "locating"
  /\ clockings' = Append(clockings, [sent |-> form = "gps", awaited |-> TRUE])
  /\ UNCHANGED <<form, geofence, located, locating, timers>>
  /\ Remember(FALSE)

(* The location is there, or not to be had: the camera sends all the same. *)
Send(i) ==
  /\ ~clockings[i].sent
  /\ clockings' = [clockings EXCEPT ![i].sent = TRUE]
  /\ step' = IF form \in Web THEN "sending" ELSE step
  /\ UNCHANGED <<form, geofence, busy, located, locating, timers>>
  /\ Remember(FALSE)

NotLocated(i) ==
  /\ ~clockings[i].sent /\ form \in Web
  /\ clockings' = RemoveAt(clockings, i)
  /\ step' = "error" /\ busy' = FALSE
  /\ UNCHANGED <<form, geofence, located, locating, timers>>
  /\ Remember(FALSE)

Answered(i) ==
  /\ clockings[i].sent
  /\ clockings' = RemoveAt(clockings, i)
  /\ UNCHANGED <<form, geofence, located, locating>>
  /\ Remember(FALSE)

Succeed(i) ==
  /\ Answered(i) /\ clockings[i].awaited
  /\ step' = "success"
  /\ Set(IF form \in App THEN "leave" ELSE "open")
  /\ UNCHANGED busy

(* Refused, or no answer. The camera opens again by itself.                *)
Fail(i) ==
  /\ Answered(i) /\ clockings[i].awaited
  /\ step' = "error"
  /\ busy' = (form = "camera")
  /\ IF form = "camera" THEN Set("open") ELSE UNCHANGED timers

(* The screen has been left: it still tells the telephone to go home.      *)
AnsweredUnseen(i) ==
  /\ Answered(i) /\ ~clockings[i].awaited
  /\ UNCHANGED <<step, busy>>
  /\ UNCHANGED timers \/ Set("leave")

(* A mistaken form: a reset leaves the timer of the scan page.             *)
KeepTimers == UNCHANGED timers

ClearTimer == timers' = IF form = "scan" THEN [timers EXCEPT !["open"] = 0] ELSE timers

Reset ==
  /\ form \in Web /\ step \in {"success", "error"}
  /\ step' = "input" /\ busy' = FALSE
  /\ ClearTimer
  /\ UNCHANGED <<form, geofence, located, locating, clockings>>
  /\ Remember(FALSE)

(* A timer opens the form again, whatever it shows by then.                *)
Reopen ==
  /\ timers["open"] > 0
  /\ timers' = [timers EXCEPT !["open"] = @ - 1]
  /\ step' = "input" /\ busy' = FALSE
  /\ UNCHANGED <<form, geofence, located, locating, clockings>>
  /\ Remember(form = "checkin")

-----------------------------------------------------------------------------
(* The location screen locates again by a button that is there whenever    *)
(* there are coordinates, also while a clocking is on its way, and after   *)
(* an error without any. A location, or its failure, changes what is shown *)
(* whenever it comes.                                                      *)
Locate ==
  /\ form = "gps" /\ geofence /\ locating < 2
  /\ IF step = "error" THEN ~located ELSE located /\ step # "left"
  /\ step' = "locating" /\ locating' = locating + 1
  /\ UNCHANGED <<form, geofence, busy, located, clockings, timers>>
  /\ Remember(FALSE)

Located ==
  /\ locating > 0 /\ locating' = locating - 1
  /\ located' = TRUE /\ step' = "input"
  /\ UNCHANGED <<form, geofence, busy, clockings, timers>>
  /\ Remember(TRUE)

NoLocation ==
  /\ locating > 0 /\ locating' = locating - 1
  /\ step' = "error"
  /\ UNCHANGED <<form, geofence, busy, located, clockings, timers>>
  /\ Remember(TRUE)

(* The screens of the app are left by a button, or when a timer of a       *)
(* success goes off, of this screen or one that was left before it; what   *)
(* they wait for shows no more.                                            *)
Leave ==
  /\ form \in App /\ step # "left"
  /\ \/ timers' = [timers EXCEPT !["open"] = 0]
     \/ timers["leave"] > 0 /\ timers' = [timers EXCEPT !["open"] = 0, !["leave"] = @ - 1]
  /\ step' = "left" /\ locating' = 0
  /\ clockings' = [i \in DOMAIN clockings |-> [clockings[i] EXCEPT !.awaited = FALSE]]
  /\ UNCHANGED <<form, geofence, busy, located>>
  /\ Remember(TRUE)

GoHome ==
  /\ step = "left" /\ timers["leave"] > 0
  /\ timers' = [timers EXCEPT !["leave"] = @ - 1]
  /\ UNCHANGED <<form, geofence, step, busy, located, locating, clockings, reopened>>

Open ==
  /\ step = "left"
  /\ step' = AtFirst /\ locating' = (IF step' = "locating" THEN 1 ELSE 0)
  /\ busy' = FALSE /\ located' = FALSE
  /\ UNCHANGED <<form, geofence, clockings, timers>>
  /\ Remember(FALSE)

Next ==
  \/ Submit \/ Reset \/ Reopen \/ Locate \/ Located \/ NoLocation \/ Leave \/ GoHome
  \/ Open
  \/ \E i \in DOMAIN clockings :
       Send(i) \/ NotLocated(i) \/ Succeed(i) \/ Fail(i) \/ AnsweredUnseen(i)

Spec == Init /\ [][Next]_vars

-----------------------------------------------------------------------------
(* One clocking of a form is on its way at a time, so that a second press  *)
(* does not undo the first, unless the screen was left, located again, or  *)
(* opened by the timer of an earlier clocking in between                   *)
(* (scan/page.tsx:61, 127-133, 164-169; checkin/page.tsx:116-120;          *)
(* scan.tsx:60-61; gps-checkin.tsx:157).                                   *)
OneClockingAtATime == Len(clockings) <= 1 \/ reopened
=============================================================================
