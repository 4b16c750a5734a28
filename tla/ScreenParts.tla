----------------------------- MODULE ScreenParts -----------------------------
(***************************************************************************)
(* What a screen of an application is made of. A page keeps its state in   *)
(* hooks: what the user has chosen (a date, a tab, the filters of a list), *)
(* the lists it has loaded, and flags that are up while a request is in    *)
(* progress. The modules of screens say of every page                      *)
(*   - which lists it loads, for which choices, and when;                  *)
(*   - which lists show what a handler changes at the server, and which of *)
(*     them it loads again;                                                *)
(*   - which flags switch off a button, and which list must be on show.    *)
(* Module Screens says what happens.                                       *)
(***************************************************************************)
EXTENDS TLC

NoFlag == "none"
NoList == "none"
Nothing == [n \in {} |-> {}]

(* A list: `sends` are the choices its request carries, `on` those whose   *)
(* change starts it; `opens` if the page starts it when it opens. One that *)
(* is loaded only when it is `asked` for shows what was chosen then.       *)
Load(sends, on, opens, flag) ==
  [sends |-> sends, on |-> on, opens |-> opens, asked |-> FALSE,
   polled |-> FALSE, guarded |-> FALSE, flag |-> flag]

AtOpening(flag) == Load({}, {}, TRUE, flag)
Follows(sends, flag) == Load(sends, sends, TRUE, flag)
WhenAsked(sends, flag) == [Load(sends, {}, FALSE, flag) EXCEPT !.asked = TRUE]

(* Loaded again by a timer.                                                *)
Polled(load) == [load EXCEPT !.polled = TRUE]
(* An answer for what is no longer chosen is thrown away.                  *)
Guarded(load) == [load EXCEPT !.guarded = TRUE]

(* A handler: `flag` is up while its request is in progress. `changes` are *)
(* the lists that show what the server changed; when it is done the page   *)
(* loads some lists again, makes the change on others, and replaces others *)
(* by the answer. Those it `leaves` are known to be left as they are.      *)
Handler(flag, changes, reloads, patches, shows) ==
  [flag |-> flag, changes |-> changes, reloads |-> reloads, patches |-> patches,
   shows |-> shows, leaves |-> {}, fails |-> TRUE]

Reloads(flag, lists) == Handler(flag, lists, lists, {}, {})
Patches(flag, lists) == Handler(flag, lists, {}, lists, {})
Shows(flag, lists) == Handler(flag, lists, {}, {}, lists)
(* It changes nothing on show, or leaves the page.                         *)
Sends(flag) == Handler(flag, {}, {}, {}, {})
(* It changes these lists too and leaves them as they are on show.         *)
Leaving(lists, handler) ==
  [handler EXCEPT !.changes = @ \cup lists, !.leaves = lists]
Leaves(flag, lists) == Leaving(lists, Sends(flag))

(* It goes on in the same way whether it succeeded or failed.              *)
Unfailing(handler) == [handler EXCEPT !.fails = FALSE]

(* A button, with the flags that switch it off; one on a row, or shown     *)
(* with a list only, needs the list on show.                               *)
Button(off) == [needs |-> NoList, off |-> off]
On(list, off) == [needs |-> list, off |-> off]

(* `hides` are the lists replaced by a spinner while their flag is up;     *)
(* `again` the buttons that load a list.                                   *)
View(hides, again, buttons) ==
  [hides |-> hides, again |-> again, buttons |-> buttons]

(* `forms` are the buttons in the dialogs over the page. Of the flags of a *)
(* set in `oneOf` one is up at a time: they are values of one variable. An *)
(* `unguarded` handler may be called although its flag is up, by a timer   *)
(* or a button nothing switches off.                                       *)
Screen(loads, does, view, forms) ==
  [loads |-> loads, does |-> does, view |-> view, forms |-> forms,
   oneOf |-> {}, unguarded |-> {}]
OneOf(sets, screen) == [screen EXCEPT !.oneOf = sets]
Unguarded(names, screen) == [screen EXCEPT !.unguarded = names]
=============================================================================
