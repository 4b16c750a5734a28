------------------------------- MODULE Screens -------------------------------
(***************************************************************************)
(* A page open in a browser or on a telephone: what the user chooses and   *)
(* presses, the requests on their way, and their answers, which come in    *)
(* any order or never. The page is one of Pages; what it loads, what it    *)
(* sends and what it switches off is read from there (see ScreenParts).    *)
(***************************************************************************)
EXTENDS ScreenParts, Integers, SequencesExt

CONSTANTS
  Pages,        \* name -> what the page is made of
  MaxPending    \* bound on the requests the user has on their way

Values == {0, 1}    \* of a choice
NotShown == [shown |-> FALSE]

VARIABLES
  name,      \* the page that is open
  chosen,    \* choice -> its value
  shown,     \* list -> what was chosen for what it shows
  flags,     \* the flags that are up
  pending,   \* the requests on their way, in the order they were sent
  outdated,  \* history: lists on show without a change that was answered
  astray,    \* history: lists whose last load failed, was overtaken by a change or by a
             \* later load, or was a handler's for what was chosen before; and those that
             \* a handler is known to leave
  early      \* history: flags put down while a request they stand for was on its way

vars == <<name, chosen, shown, flags, pending, outdated, astray, early>>

Page == Pages[name]
Lists == DOMAIN Page.loads
LoadOf(l) == Page.loads[l]
Does(n) == Page.does[n]
ChoicesMade == UNION {LoadOf(l).sends : l \in Lists}

Only(choice, names) == [c \in names |-> choice[c]]
Shown(l, choice) == [shown |-> TRUE, choice |-> Only(choice, LoadOf(l).sends)]

-----------------------------------------------------------------------------
(* Flags. A flag that is a value of a variable puts the other values down, *)
(* and putting one down puts down whatever value there is.                 *)
Siblings(f) == UNION {s \in Page.oneOf : f \in s}
Raise(up, f) == (up \ Siblings(f)) \cup ({f} \ {NoFlag})
Lower(up, f) == up \ ({f} \cup Siblings(f))
RaiseAll(up, lists) == FoldSet(LAMBDA l, f : Raise(f, LoadOf(l).flag), up, lists)

FlagOf(request) == IF request.kind = "load" THEN LoadOf(request.of).flag ELSE Does(request.of).flag
WaitedFor(requests) == {FlagOf(requests[i]) : i \in DOMAIN requests} \ {NoFlag}
RememberEarly ==
  early' = {f \in WaitedFor(pending') : f \in early \/ f \notin flags'}

-----------------------------------------------------------------------------
(* Requests. A load says whether the server may have answered it before a  *)
(* change that was answered since, whether a later one was answered first, *)
(* and whether a handler sent it for what is no longer chosen.             *)
LoadRequest(l, choice, past) ==
  [kind |-> "load", of |-> l, choice |-> Only(choice, LoadOf(l).sends),
   outdated |-> FALSE, late |-> FALSE, past |-> past]

LoadsOf(l) == {i \in DOMAIN pending : pending[i].kind = "load" /\ pending[i].of = l}
LoadAll(lists, choice, others) ==
  others \o SetToSeq({LoadRequest(l, choice, FALSE) : l \in lists})
ReloadAll(lists, choice, others) ==
  LET past(l) == \E c \in LoadOf(l).sends : choice[c] # chosen[c]
  IN  others \o SetToSeq({LoadRequest(l, choice, past(l)) : l \in lists})

Opens(page) == {l \in DOMAIN page.loads : page.loads[l].opens}

Init ==
  /\ name \in DOMAIN Pages
  /\ chosen = [c \in ChoicesMade |-> 0]
  /\ shown = [l \in Lists |-> NotShown]
  /\ pending = LoadAll(Opens(Page), chosen, <<>>)
  /\ flags = RaiseAll({}, Opens(Page))
  /\ outdated = {} /\ astray = {} /\ early = {}

(* The user chooses; the effects that depend on the choice load.           *)
Choose(c, v) ==
  LET lists == {l \in Lists : c \in LoadOf(l).on} IN
  /\ chosen[c] # v
  /\ chosen' = [chosen EXCEPT ![c] = v]
  /\ pending' = LoadAll(lists, chosen', pending)
  /\ flags' = RaiseAll(flags, lists)
  /\ UNCHANGED <<name, shown, outdated, astray>>

LoadAgain(l) ==
  /\ pending' = LoadAll({l}, chosen, pending)
  /\ flags' = Raise(flags, LoadOf(l).flag)
  /\ UNCHANGED <<name, chosen, shown, outdated, astray>>

(* A button that loads a list, or coming back to its tab. *)
Refresh(l) ==
  /\ l \in DOMAIN Page.view.again
  /\ Page.view.again[l] \cap flags = {}
  /\ LoadAgain(l)

Poll(l) == LoadOf(l).polled /\ LoadAgain(l)

OnShow(l) == /\ shown[l] # NotShown
             /\ ~(l \in Page.view.hides /\ LoadOf(l).flag \in flags)

(* A mistaken form: a button that no flag switches off.                    *)
EnabledAnyway(button) == button.needs # NoList => OnShow(button.needs)

(* A button is there and on.                                               *)
Enabled(button) ==
  /\ button.off \cap flags = {}
  /\ button.needs # NoList => OnShow(button.needs)

ButtonsFor(page, n) ==
  {page.view.buttons[b] : b \in DOMAIN page.view.buttons \cap {n}}
  \cup {page.forms[b] : b \in DOMAIN page.forms \cap {n}}
ButtonsOf(n) == ButtonsFor(Page, n)

(* The handler goes on with what was chosen when its button was pressed.   *)
DoRequest(n) ==
  [kind |-> "do", of |-> n, outdated |-> FALSE, late |-> FALSE, past |-> FALSE,
   choice |-> Only(chosen, UNION {LoadOf(l).sends : l \in Does(n).reloads \cup Does(n).shows})]

Press(n) ==
  /\ \E button \in ButtonsOf(n) : Enabled(button)
  /\ pending' = Append(pending, DoRequest(n))
  /\ flags' = Raise(flags, Does(n).flag)
  /\ UNCHANGED <<name, chosen, shown, outdated, astray>>

(* A load that is guarded counts only while it is the last of its list. *)
Newest(i) == ~pending[i].late /\ \A j \in LoadsOf(pending[i].of) : j <= i

(* A mistaken form: every answer counts.                                   *)
DroppedNever(i) == i \notin DOMAIN pending

Dropped(i) == pending[i].kind = "load" /\ LoadOf(pending[i].of).guarded /\ ~Newest(i)

Drop(i) ==
  /\ Dropped(i)
  /\ pending' = RemoveAt(pending, i)
  /\ UNCHANGED <<name, chosen, shown, flags, outdated, astray>>

(* Without the i-th, which those sent before it come too late for. *)
Overtaken(i) ==
  LET mark(j) == IF pending[i].kind = "load" /\ j < i /\ j \in LoadsOf(pending[i].of)
                 THEN [pending[j] EXCEPT !.late = TRUE] ELSE pending[j]
  IN  RemoveAt([j \in DOMAIN pending |-> mark(j)], i)

(* The answer to a load replaces what is on show, whenever it comes.       *)
Answered(i) ==
  LET request == pending[i]
      l == request.of
      stray == \/ request.late /\ ~LoadOf(l).guarded
               \/ Newest(i) /\ (request.outdated \/ request.past)
  IN
  /\ request.kind = "load" /\ ~Dropped(i)
  /\ flags' = Lower(flags, LoadOf(l).flag)
  /\ pending' = Overtaken(i)
  /\ shown' = [shown EXCEPT ![l] = Shown(l, request.choice)]
  /\ outdated' = IF request.outdated THEN outdated \cup {l} ELSE outdated \ {l}
  /\ astray' = IF stray THEN astray \cup {l} ELSE astray \ {l}
  /\ UNCHANGED <<name, chosen>>

(* A mistaken form: what was changed is left as it is on show.             *)
DoneAndLeft(i) ==
  /\ pending[i].kind = "do"
  /\ pending' = RemoveAt(pending, i)
  /\ outdated' = outdated \cup {l \in Does(pending[i].of).changes : shown[l] # NotShown}
  /\ flags' = Lower(flags, Does(pending[i].of).flag)
  /\ UNCHANGED <<name, chosen, shown, astray>>

(* Done: what it changed is loaded again, or changed on show.              *)
Done(i) ==
  LET do == Does(pending[i].of)
      ages(r) == (IF r.kind = "load" THEN {r.of} ELSE Does(r.of).shows) \cap do.changes # {}
      aged == [j \in DOMAIN pending |->
                 IF ages(pending[j]) THEN [pending[j] EXCEPT !.outdated = TRUE] ELSE pending[j]]
  IN
  /\ pending[i].kind = "do"
  /\ pending' = ReloadAll(do.reloads, pending[i].choice, RemoveAt(aged, i))
  /\ outdated' = (outdated \ do.shows)
                 \cup {l \in do.changes \ (do.patches \cup do.shows) : shown[l] # NotShown}
  /\ astray' = (IF pending[i].outdated THEN astray \cup do.shows ELSE astray \ do.shows)
               \cup do.leaves
  /\ shown' = [l \in Lists |-> IF l \in do.shows THEN Shown(l, pending[i].choice) ELSE shown[l]]
  /\ flags' = Lower(RaiseAll(flags, do.reloads), do.flag)
  /\ UNCHANGED <<name, chosen>>

(* It failed, or no answer came: a message, and the page goes on.          *)
Failed(i) ==
  /\ ~Dropped(i)
  /\ pending[i].kind = "do" => Does(pending[i].of).fails
  /\ pending' = Overtaken(i)
  /\ flags' = Lower(flags, FlagOf(pending[i]))
  /\ astray' = IF pending[i].kind = "load" /\ ~pending[i].late
               THEN astray \cup {pending[i].of} ELSE astray
  /\ UNCHANGED <<name, chosen, shown, outdated>>

User ==
  \/ \E c \in DOMAIN chosen, v \in Values : Choose(c, v)
  \/ \E l \in Lists : Refresh(l) \/ Poll(l)
  \/ \E n \in DOMAIN Page.does : Press(n)

Next ==
  /\ \/ Len(pending) < MaxPending /\ User
     \/ \E i \in DOMAIN pending : Answered(i) \/ Done(i) \/ Failed(i) \/ Drop(i)
  /\ RememberEarly

Spec == Init /\ [][Next]_vars

-----------------------------------------------------------------------------
(* Once its requests are answered, a list shows what is chosen, or was     *)
(* chosen when it was asked for, with every change made from this page,    *)
(* unless it is astray.                                                    *)
ShowsWhatIsChosen ==
  \A l \in Lists \ astray :
    shown[l] # NotShown /\ LoadsOf(l) = {} =>
      /\ l \notin outdated
      /\ LoadOf(l).asked \/ \A c \in LoadOf(l).sends : shown[l].choice[c] = chosen[c]

(* Of the handlers that share a flag one is in progress at a time, unless  *)
(* an answer to something else put the flag down, or one is unguarded.     *)
OneAtATime ==
  LET asked == {i \in DOMAIN pending : pending[i].kind = "do"
                                      /\ pending[i].of \notin Page.unguarded}
  IN  \A i, j \in asked :
        FlagOf(pending[i]) = FlagOf(pending[j]) =>
          i = j \/ FlagOf(pending[i]) \in early \cup {NoFlag}
=============================================================================
