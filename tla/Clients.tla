------------------------------ MODULE Clients --------------------------------
(***************************************************************************)
(* What runs in a browser or on a telephone, side by side: the API client  *)
(* of the apps, the screens, and the forms that clock attendance. Which of *)
(* the three runs is chosen at the start; the others stay as they begin.   *)
(***************************************************************************)
EXTENDS MobileClient

CONSTANTS Pages, MaxPending, MaxClockings, MaxTimers

VARIABLES
  part,
  name, chosen, shown, flags, pending, outdated, astray, early,
  form, geofence, step, busy, located, locating, clockings, timers, reopened

screenVars == <<name, chosen, shown, flags, pending, outdated, astray, early>>
formVars == <<form, geofence, step, busy, located, locating, clockings, timers, reopened>>

Screens == INSTANCE Screens
ClockingForms == INSTANCE ClockingForms

(* Of every page: its lists are finite, and only those are loaded again or *)
(* replaced by an answer; and a handler that has a flag is behind buttons  *)
(* that it switches off, unless it is named as unguarded.                  *)
ASSUME PagesAssumption ==
  \A n \in DOMAIN Pages : LET page == Pages[n] IN
    /\ IsFiniteSet(DOMAIN page.loads)
    /\ \A h \in DOMAIN page.does : LET do == page.does[h] IN
         /\ do.reloads \cup do.shows \subseteq DOMAIN page.loads
         /\ h \notin page.unguarded /\ do.flag # Screens!NoFlag =>
              \A button \in Screens!ButtonsFor(page, h) : do.flag \in button.off

(* What a page owes its user: a list that is not only asked for follows    *)
(* every choice that it sends; a handler loads again, changes on show or   *)
(* replaces whatever it changes, but for what it is known to leave; and    *)
(* what it replaces depends on no choice.                                  *)
PagesComplete ==
  \A n \in DOMAIN Pages : LET page == Pages[n] IN
    /\ \A l \in DOMAIN page.loads : page.loads[l].asked \/ page.loads[l].sends \subseteq page.loads[l].on
    /\ \A h \in DOMAIN page.does : LET do == page.does[h] IN
         /\ do.changes \subseteq do.reloads \cup do.patches \cup do.shows \cup do.leaves
         /\ \A l \in do.shows : page.loads[l].sends = {}

ClientsInit ==
  /\ part \in {"client", "screen", "form"}
  /\ Init /\ Screens!Init /\ ClockingForms!Init
  /\ part # "client" => ~headerChecked
  /\ part # "screen" => name = CHOOSE n \in DOMAIN Pages : TRUE
  /\ part # "form" => form = "scan" /\ geofence

ClientsNext ==
  /\ UNCHANGED part
  /\ \/ part = "client" /\ Next /\ UNCHANGED <<screenVars, formVars>>
     \/ part = "screen" /\ Screens!Next /\ UNCHANGED <<vars, formVars>>
     \/ part = "form" /\ ClockingForms!Next /\ UNCHANGED <<vars, screenVars>>

ClientsSpec ==
  /\ ClientsInit /\ [][ClientsNext]_<<part, vars, screenVars, formVars>>
  /\ \A r \in Requests : WF_vars(Progress(r))
-----------------------------------------------------------------------------
(* What is on show once its requests are answered is what is chosen, with  *)
(* every change made from the page (the effects and handlers of the pages).*)
ShowsWhatIsChosen == Screens!ShowsWhatIsChosen

(* A button that is off while its request is in progress sends one at a    *)
(* time, and a form one clocking (the flags of the pages; scan/page.tsx:61,*)
(* scan.tsx:60-61).                                                        *)
OneRequestAtATime == Screens!OneAtATime /\ ClockingForms!OneClockingAtATime
=============================================================================
