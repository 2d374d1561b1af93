------------------------------- MODULE WebHost ------------------------------
(***************************************************************************)
(* crates/essenty-web/src: VisibilityLifecycle of lifecycle.rs and the     *)
(* BrowserLifecycle of wasm/browser_lifecycle.rs that attaches it to a     *)
(* page, with the registry they drive and its observers.                   *)
(*                                                                         *)
(* The browser is external.  A page is shown, kept in the back/forward     *)
(* cache or gone, and its visibility changes; each event is dispatched     *)
(* with the change it announces, in a task of the page's one thread.       *)
(* Leaving a page dispatches pagehide first and visibilitychange after it, *)
(* coming back from the cache changes the visibility and dispatches        *)
(* pageshow, with or without a visibilitychange before.                    *)
(***************************************************************************)
EXTENDS LifecycleRegistry

VARIABLES
  visibility,  \* external: document.visibilityState, "none" if unreadable
  page,        \* external: "shown", "cached", "evicted" from there, or "gone"
  queue,       \* external: the events the browser has still to dispatch
  listening,   \* external: the events with a listener of ours
  bound        \* the BrowserLifecycle: "no", "yes" or "dropped"

webVars == <<visibility, page, queue, listening, bound>>
webAll  == <<vars, webVars>>

Visibilities == {"visible", "hidden", "prerender", "none"}
Listened     == {"visibilitychange", "pagehide", "pageshow"}

-----------------------------------------------------------------------------
WebInit ==
  /\ Init
  /\ visibility \in Visibilities
  /\ page = "shown" /\ queue = <<>> /\ listening = {}
  /\ bound = "no"

(* Code of the page runs between events only while the page is shown.      *)
Scripts == stack = <<>> /\ queue = <<>> /\ page = "shown"

(* on_visibility_str: what is not "visible" counts as hidden.  What cannot *)
(* be read is passed over by the callers, and so is a hidden page whose    *)
(* registry is destroyed.                                                  *)
OnVisibility(seen) ==
  \/ seen = "none" /\ UNCHANGED vars
  \/ seen = "visible" /\ MoveTo("Resumed")
  \/ /\ seen \notin {"none", "visible"}
     /\ IF state = "Destroyed" THEN UNCHANGED vars ELSE MoveTo("Created")

PageHideDestroying(persisted) == Destroy  \* mutant of OnPageHide

(* on_page_hide_with_persistence *)
OnPageHide(persisted) == IF persisted THEN MoveTo("Created") ELSE Destroy

(* The listeners are added in this order.  When one fails, the handlers of *)
(* the failures remove what has been added before it.                      *)
Added(failed) ==
  CASE failed = "visibilitychange" -> {}
    [] failed = "pagehide"         -> {"visibilitychange"}
    [] failed = "pageshow"         -> {"visibilitychange", "pagehide"}

RemovedFirst(failed) ==  \* mutant of Removed: the second handler is a copy
  CASE failed = "visibilitychange" -> {}
    [] failed = "pagehide"         -> {"visibilitychange"}
    [] failed = "pageshow"         -> {"visibilitychange"}

Removed(failed) ==
  CASE failed = "visibilitychange" -> {}
    [] failed = "pagehide"         -> {"visibilitychange"}
    [] failed = "pageshow"         -> {"visibilitychange", "pagehide"}

(* BrowserLifecycle::new.  When it fails, the registry it has moved to the *)
(* visibility of the page is dropped with everything else; nobody has seen *)
(* it, so that nothing is left of it here.                                 *)
WebAttach ==
  /\ Scripts
  /\ bound = "no"
  /\ bound' = "yes"
  /\ listening' = Listened
  /\ OnVisibility(visibility)
  /\ UNCHANGED <<visibility, page, queue>>

WebAttachFails ==
  /\ Scripts
  /\ bound = "no"
  /\ \E failed \in Listened : listening' = Added(failed) \ Removed(failed)
  /\ UNCHANGED <<vars, visibility, page, queue, bound>>

(* Drop for BrowserLifecycle; the registry lives on where it was cloned.   *)
WebDrop ==
  /\ Scripts
  /\ bound = "yes"
  /\ bound' = "dropped"
  /\ listening' = {}
  /\ UNCHANGED <<vars, visibility, page, queue>>

-----------------------------------------------------------------------------
(* The browser: a change and the events it will dispatch, before anything  *)
(* else happens on the page's thread.                                      *)
Changes(seen, shown, events) ==
  /\ stack = <<>> /\ queue = <<>> /\ page \notin {"gone", "evicted"}
  /\ visibility' = seen /\ page' = shown /\ queue' = events
  /\ UNCHANGED <<vars, listening, bound>>

Shows ==
  /\ page = "shown"
  /\ \E seen \in Visibilities \ {visibility} :
       Changes(seen, page, << [type |-> "visibilitychange"] >>)

PageHide(persisted) == [type |-> "pagehide", persisted |-> persisted]

(* The user leaves: pagehide is dispatched while the document still says   *)
(* what it said before, a visible one is hidden afterwards.                *)
Leave(persisted) ==
  /\ page = "shown"
  /\ Changes(visibility, IF persisted THEN "cached" ELSE "gone",
             << PageHide(persisted) >>
               \o IF visibility = "visible" THEN << [type |-> "hidden"] >> ELSE <<>>)

(* The user comes back to a cached page, perhaps in a tab behind others.   *)
ComeBack ==
  /\ page = "cached"
  /\ \E seen \in Visibilities, announced \in BOOLEAN :
       Changes(seen, "shown",
               (IF announced THEN << [type |-> "visibilitychange"] >> ELSE <<>>)
                 \o << [type |-> "pageshow"] >>)

(* A cached page is evicted without a word. *)
Evict == page = "cached" /\ Changes(visibility, "evicted", <<>>)

(* The next event of the queue.  Only a listener of ours makes a           *)
(* difference, and it reads the visibility the document has by then.       *)
DispatchEvent ==
  /\ stack = <<>> /\ queue # <<>>
  /\ queue' = Tail(queue)
  /\ visibility' = IF Head(queue).type = "hidden" THEN "hidden" ELSE visibility
  /\ LET type == IF Head(queue).type = "hidden" THEN "visibilitychange"
                                                ELSE Head(queue).type IN
     \/ type \notin listening /\ UNCHANGED vars
     \/ /\ type \in listening
        /\ IF type = "pagehide" THEN OnPageHide(Head(queue).persisted)
                                ELSE OnVisibility(visibility')
  /\ UNCHANGED <<page, listening, bound>>

Browser ==
  \/ Shows
  \/ \E persisted \in BOOLEAN : Leave(persisted)
  \/ ComeBack
  \/ Evict
  \/ DispatchEvent

WebNext ==
  \/ WebAttach \/ WebAttachFails \/ WebDrop
  \/ Browser
  \/ (Scripts \/ On("callback")) /\ Components /\ UNCHANGED webVars
  \/ (Run \/ CallbackReturn) /\ UNCHANGED webVars

WebSpec == WebInit /\ [][WebNext]_webAll

-----------------------------------------------------------------------------
(* A listener is with the browser only as long as its closure is owned: a  *)
(* failed attachment takes back what it had added, in whatever order the   *)
(* attempts go, and a drop takes back everything.  (browser_lifecycle.rs   *)
(* 81-112, 124-139)                                                        *)
ListenersOwned == listening = IF bound = "yes" THEN Listened ELSE {}

(* Whenever the browser has dispatched all its events, every component     *)
(* that observes the registry was last told what the page shows: "visible" *)
(* is Resumed, "anything else" Created, and only a page that left without  *)
(* persistence is destroyed; a cached page "remains restorable", comes     *)
(* back to the state its visibility asks for, and a page whose visibility  *)
(* cannot be read stays where it was.  (lifecycle.rs 28-30, 50-81;         *)
(* browser_lifecycle.rs 56-98)                                             *)
PageState ==
  IF page = "gone" THEN {"Destroyed"}
  ELSE IF page = "shown" /\ visibility = "visible" THEN {"Resumed"}
  ELSE IF page = "shown" /\ visibility = "none" THEN States \ {"Destroyed"}
  ELSE {"Created"}

ObserversFollowPage ==
  bound = "yes" /\ stack = <<>> /\ queue = <<>> =>
    /\ state \in PageState
    /\ \A i \in DOMAIN observers : LastHeard(observers[i]) = state

=============================================================================
