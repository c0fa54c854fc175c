---------------------------- MODULE FormHandlers ----------------------------
(***************************************************************************)
(* Handlers of forms and wrapped events (Modules/palmformmodule.c,         *)
(* Modules/palmeventmodule.c, the loop of Palm/Interactive/PythonGUI.c).   *)
(* A program sets a function as the handler of a form; dispatching an      *)
(* event calls the handler of the active form, which runs the program      *)
(* again: it may set handlers, dispatch events and drop its references.    *)
(* The destructor of a handler that is replaced runs inside _addHandler,   *)
(* between the Py_DECREF and the assignment.  FrmDispatchEvent of Palm OS  *)
(* is external: it calls the handler of the active form if it has one.     *)
(***************************************************************************)
EXTENDS Naturals, Sequences, FiniteSets, SequencesExt

CONSTANTS
  Forms, Callbacks,
  Wrappers,         (* palmevent objects                                    *)
  Events,           (* the memory that getevent gets for them               *)
  AppEvent,         (* the event variable of the application's own loop     *)
  NoWrapper,
  MaxDepth          (* bound: calls inside one another                      *)

ASSUME FormsAssumption ==
  MaxDepth \in Nat /\ AppEvent \notin Events /\ NoWrapper \notin Wrappers

VARIABLES
  handlers,         (* the list, the newest first                           *)
  activeForm,       (* the active form                                      *)
  cbCount,          (* the reference count of each callback                 *)
  cbHeld,           (* the callbacks that the program refers to             *)
  running,          (* the calls in progress, the innermost last            *)
  evOf,             (* the event of each wrapper                            *)
  wCount, wHeld,    (* the same of the wrappers                             *)
  owners,           (* history: the wrappers that getevent made             *)
  got,              (* the memory that was allocated for events             *)
  frees,            (* history: how often it was freed                      *)
  ended,            (* has Python been finalised?                           *)
  broken            (* was memory used that is not there any more?          *)

cbVars    == <<cbCount, cbHeld>>
eventVars == <<evOf, wCount, wHeld, owners, got, frees>>
formVars  == <<handlers, activeForm, cbVars, running, eventVars, ended, broken>>

AllEvents == Events \cup {AppEvent}

FormInit ==
  /\ handlers = <<>> /\ activeForm \in Forms
  /\ cbCount = [c \in Callbacks |-> 0] /\ cbHeld = {}
  /\ running = <<>>
  /\ evOf = [w \in Wrappers |-> AppEvent] /\ wCount = [w \in Wrappers |-> 0] /\ wHeld = {}
  /\ owners = {} /\ got = {} /\ frees = [e \in AllEvents |-> 0]
  /\ ended = FALSE /\ broken = FALSE

-----------------------------------------------------------------------------
(* Calls *)

Calling(c, w)   == [kind |-> "call", callback |-> c, wrapper |-> w]
Replacing(f, c) == [kind |-> "replace", callback |-> c, form |-> f]
Del(c)          == [kind |-> "del", callback |-> c]

Top     == Last(running)
TopIs(kind) == running # <<>> /\ Top.kind = kind
Runs    == ~ended /\ ~broken /\ ~TopIs("replace")
MayCall == Len(running) < MaxDepth

IndexOf(f)  == {i \in DOMAIN handlers : handlers[i].form = f}
HandlerOf(f) == handlers[CHOOSE i \in IndexOf(f) : TRUE].callback
BeingReplaced(f) == \E k \in DOMAIN running : running[k].kind = "replace" /\ running[k].form = f

(* Py_DECREF of a callback after which calls are in progress: the last one *)
(* starts its destructor, with the object revived for the time being.      *)
Lose(counts, c, calls) ==
  IF counts[c] = 1 THEN /\ cbCount' = counts
                        /\ running' = Append(calls, Del(c)) /\ Len(calls) < MaxDepth
  ELSE /\ cbCount' = [counts EXCEPT ![c] = @ - 1]
       /\ running' = calls

-----------------------------------------------------------------------------
(* What a program does with callbacks *)

NewCallback(c) ==
  /\ Runs /\ cbCount[c] = 0
  /\ \A i \in DOMAIN handlers : handlers[i].callback # c
  /\ cbCount' = [cbCount EXCEPT ![c] = 1] /\ cbHeld' = cbHeld \cup {c}
  /\ UNCHANGED <<handlers, activeForm, running, eventVars, ended, broken>>

(* self of a callback that runs, or of its destructor *)
KeepSelf ==
  /\ Runs /\ running # <<>> /\ Top.callback \notin cbHeld
  /\ cbCount' = [cbCount EXCEPT ![Top.callback] = @ + 1]
  /\ cbHeld' = cbHeld \cup {Top.callback}
  /\ UNCHANGED <<handlers, activeForm, running, eventVars, ended, broken>>

DropCallback(c) ==
  /\ Runs /\ c \in cbHeld
  /\ Lose(cbCount, c, running) /\ cbHeld' = cbHeld \ {c}
  /\ UNCHANGED <<handlers, activeForm, eventVars, ended, broken>>

DestructorReturns ==
  /\ Runs /\ TopIs("del")
  /\ cbCount' = [cbCount EXCEPT ![Top.callback] = @ - 1]
  /\ running' = Front(running)
  /\ UNCHANGED <<handlers, activeForm, cbHeld, eventVars, ended, broken>>

-----------------------------------------------------------------------------
(* setEventHandler *)

(* A form without a handler gets a new item, if there is memory for it.    *)
InsertHandler(f, c) ==
  /\ Runs /\ c \in cbHeld /\ IndexOf(f) = {}
  /\ handlers' = <<[form |-> f, callback |-> c]>> \o handlers
  /\ cbCount' = [cbCount EXCEPT ![c] = @ + 1]
  /\ UNCHANGED <<activeForm, cbHeld, running, eventVars, ended, broken>>

(* Otherwise the old handler is released first.  The arguments hold c.     *)
(* Inside the destructor of the same handler it would be released twice.   *)
StartReplace(f, c) ==
  /\ Runs /\ c \in cbHeld /\ IndexOf(f) # {} /\ MayCall
  /\ IF BeingReplaced(f)
     THEN broken' = TRUE /\ UNCHANGED <<cbCount, running>>
     ELSE /\ Lose([cbCount EXCEPT ![c] = @ + 1], HandlerOf(f), Append(running, Replacing(f, c)))
          /\ UNCHANGED broken
  /\ UNCHANGED <<handlers, activeForm, cbHeld, eventVars, ended>>

(* Mutant: the new handler is not counted for the list; the reference of   *)
(* the arguments is given up when setEventHandler returns.                 *)
FinishReplaceUncounted ==
  /\ ~broken /\ TopIs("replace")
  /\ handlers' = [i \in DOMAIN handlers |->
                    IF i \in IndexOf(Top.form) THEN [form |-> Top.form, callback |-> Top.callback]
                    ELSE handlers[i]]
  /\ Lose(cbCount, Top.callback, Front(running))
  /\ UNCHANGED <<activeForm, cbHeld, eventVars, ended, broken>>

(* The new handler is counted for the list, no longer for the arguments.   *)
FinishReplace ==
  /\ ~broken /\ TopIs("replace")
  /\ handlers' = [i \in DOMAIN handlers |->
                    IF i \in IndexOf(Top.form) THEN [form |-> Top.form, callback |-> Top.callback]
                    ELSE handlers[i]]
  /\ running' = Front(running)
  /\ UNCHANGED <<activeForm, cbVars, eventVars, ended, broken>>

SetActive(f) ==
  /\ Runs /\ activeForm' = f
  /\ UNCHANGED <<handlers, cbVars, running, eventVars, ended, broken>>

-----------------------------------------------------------------------------
(* Events *)

(* Without memory for the wrapper the event is forgotten. *)
getevent(w, e) ==
  /\ Runs /\ wCount[w] = 0 /\ e \notin got
  /\ got' = got \cup {e}
  /\ \/ /\ wCount' = [wCount EXCEPT ![w] = 1] /\ wHeld' = wHeld \cup {w}
        /\ evOf' = [evOf EXCEPT ![w] = e] /\ owners' = owners \cup {w}
     \/ UNCHANGED <<wCount, wHeld, evOf, owners>>
  /\ UNCHANGED <<handlers, activeForm, cbVars, running, frees, ended, broken>>

(* Py_DECREF of a wrapper; eventobj_dealloc frees its event. *)
LoseWrapper(w) ==
  /\ wCount' = [wCount EXCEPT ![w] = @ - 1]
  /\ frees' = IF wCount[w] = 1 THEN [frees EXCEPT ![evOf[w]] = @ + 1] ELSE frees

DropWrapper(w) ==
  /\ Runs /\ w \in wHeld
  /\ LoseWrapper(w) /\ wHeld' = wHeld \ {w}
  /\ UNCHANGED <<handlers, activeForm, cbVars, running, evOf, owners, got, ended, broken>>

(* Mutant: the wrapper and the arguments are given up after the call, so   *)
(* that only the callback refers to the wrapper.                           *)
WrapForCallOwned(w, e, of) ==
  /\ wCount' = [u \in Wrappers |-> IF u = w THEN 1
                                   ELSE wCount[u] + (IF u = of THEN 1 ELSE 0)]
  /\ evOf' = [evOf EXCEPT ![w] = e] /\ owners' = owners \ {w}
  /\ wHeld' = wHeld \cup {w}

(* A second wrapper of the event e, which the wrapper of, if there is one, *)
(* has for the call of dispatchEvent.  It is never given up, and neither   *)
(* are the arguments it is put in; the callback has a reference of its own.*)
WrapForCall(w, e, of) ==
  /\ wCount' = [u \in Wrappers |-> IF u = w THEN 3
                                   ELSE wCount[u] + (IF u = of THEN 1 ELSE 0)]
  /\ evOf' = [evOf EXCEPT ![w] = e] /\ owners' = owners \ {w}
  /\ wHeld' = wHeld \cup {w}

(* _genericEventHandler, for the active form.  The call of an instance     *)
(* holds it.  After python_finalize the items and callbacks are gone.      *)
_genericEventHandler(e, of) ==
  /\ IndexOf(activeForm) # {} /\ MayCall
  /\ IF ended THEN broken' = TRUE /\ UNCHANGED <<cbCount, running, wCount, evOf, wHeld, owners>>
     ELSE \E w \in {u \in Wrappers : wCount[u] = 0} :
       /\ WrapForCall(w, e, of)
       /\ cbCount' = [cbCount EXCEPT ![HandlerOf(activeForm)] = @ + 1]
       /\ running' = Append(running, Calling(HandlerOf(activeForm), of))
       /\ UNCHANGED broken
  /\ UNCHANGED <<handlers, activeForm, cbHeld, got, frees, ended>>

(* A wrapper that was left over from a call may outlive its event.         *)
UseFreedEvent ==
  broken' = TRUE /\ UNCHANGED <<handlers, activeForm, cbVars, running, eventVars, ended>>
dispatchEvent(w) ==
  /\ Runs /\ w \in wHeld
  /\ IF frees[evOf[w]] = 0 THEN _genericEventHandler(evOf[w], w) ELSE UseFreedEvent

(* From the loop of PilotMain, and from FrmCloseAllForms after the end.    *)
AppDispatch == running = <<>> /\ ~broken /\ _genericEventHandler(AppEvent, NoWrapper)

(* The end of the call releases the callback and the event's wrapper.      *)
(* What the callback returns is never given up; here it is neither a       *)
(* callback nor a wrapper.                                                 *)
CallbackReturns ==
  /\ Runs /\ TopIs("call")
  /\ Lose(cbCount, Top.callback, Front(running))
  /\ IF Top.wrapper = NoWrapper THEN UNCHANGED <<wCount, frees>> ELSE LoseWrapper(Top.wrapper)
  /\ UNCHANGED <<handlers, activeForm, cbHeld, evOf, wHeld, owners, got, ended, broken>>

-----------------------------------------------------------------------------
(* _cleanup releases all handlers but the last of the list, and leaves the *)
(* list pointing to memory that was freed.                                 *)
_cleanup ==
  /\ Runs /\ running = <<>> /\ ended' = TRUE
  /\ cbCount' = [c \in Callbacks |->
       cbCount[c] - Cardinality({i \in 1 .. Len(handlers) - 1 : handlers[i].callback = c})]
  /\ UNCHANGED <<handlers, activeForm, cbHeld, running, eventVars, broken>>

FormNext ==
  \/ KeepSelf \/ DestructorReturns \/ FinishReplace \/ AppDispatch \/ CallbackReturns \/ _cleanup
  \/ \E c \in Callbacks : NewCallback(c) \/ DropCallback(c)
  \/ \E f \in Forms, c \in Callbacks : InsertHandler(f, c) \/ StartReplace(f, c)
  \/ \E f \in Forms : SetActive(f)
  \/ \E w \in Wrappers : dispatchEvent(w) \/ DropWrapper(w) \/ \E e \in Events : getevent(w, e)

FormSpec == FormInit /\ [][FormNext]_formVars

-----------------------------------------------------------------------------
(* Properties *)

Frames(kinds, c) == {k \in DOMAIN running : running[k].kind \in kinds /\ running[k].callback = c}
ReferencesTo(c) ==
  (IF c \in cbHeld THEN 1 ELSE 0) + Cardinality(Frames({"call", "replace", "del"}, c))
  + Cardinality({i \in DOMAIN handlers : handlers[i].callback = c /\ ~BeingReplaced(handlers[i].form)})

FormTypeOK ==
  /\ activeForm \in Forms /\ cbHeld \subseteq Callbacks /\ wHeld \subseteq Wrappers
  /\ cbCount \in [Callbacks -> Nat] /\ wCount \in [Wrappers -> Nat]
  /\ evOf \in [Wrappers -> AllEvents] /\ got \subseteq Events
  /\ ended \in BOOLEAN /\ broken \in BOOLEAN

(* A form has one handler, and the list refers to callbacks that are       *)
(* there, however handlers replace each other, themselves and those of     *)
(* other forms from calls and destructors; a callback is counted as often  *)
(* as it is referred to.  This holds until the destructor of a handler     *)
(* that is being replaced sets a handler for the same form, or a wrapper   *)
(* left over from a call dispatches an event that is freed.                *)
HandlersAreThere ==
  /\ FormTypeOK
  /\ \A i, j \in DOMAIN handlers : handlers[i].form = handlers[j].form => i = j
  /\ ~broken /\ ~ended => \A c \in Callbacks : cbCount[c] = ReferencesTo(c)

(* The event that a wrapper of getevent owns is freed once, and not before *)
(* that wrapper goes, although every handler it is dispatched to has a     *)
(* wrapper of its own; the event of the application, which is no allocated *)
(* memory, is never freed.                                                 *)
EventsAreFreedOnce ==
  /\ frees[AppEvent] = 0
  /\ \A e \in Events : frees[e] <= 1
  /\ \A w \in owners : wCount[w] > 0 => frees[evOf[w]] = 0
=============================================================================
