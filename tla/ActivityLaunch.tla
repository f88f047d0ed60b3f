---------------------------- MODULE ActivityLaunch ----------------------------
(***************************************************************************)
(* The launch of an Activity (game_dex_runner.c) and the window it gets    *)
(* from the ViewRoot protocol (AndroidMini/framework_viewroot.c).          *)
(*                                                                         *)
(* Every framework object has one role and is created once.  The collector *)
(* is that of AbstractHeap: whenever guest code runs or an object is       *)
(* allocated, what nothing reaches may disappear.  `held' is what C code   *)
(* keeps pointers to, which no collector looks at.                         *)
(***************************************************************************)
EXTENDS Naturals, Sequences, FiniteSets

CONSTANTS
    Refusals,  \* bound: failing allocations, gates and guest methods
    Changes    \* bound: visibility changes of the guest

ASSUME LaunchAssumption == {Refusals, Changes} \subseteq Nat

LaunchObjects == <<"appContext", "actContext", "intent", "application",
                   "window", "decor", "manager", "attributes">>
ViewRootObjects == <<"root", "session", "attachInfo", "surface">>
OwnObjects == {"ownView", "ownParams"}

Elements(list) == {list[i] : i \in DOMAIN list}
Roles == {"activity"} \cup Elements(LaunchObjects) \cup Elements(ViewRootObjects) \cup OwnObjects

VARIABLES
    pc,        \* where start_activity is
    live, edges, roots,   \* the heap: objects, fields as pairs, process roots
    held,      \* objects C structures point to
    add,       \* the call of addView in progress
    view,      \* agr_viewroot_attach_state
    budget     \* what is left of the bounds

launchVars == <<pc, live, edges, roots, held, add, view, budget>>

(* Methods of the application that start_activity calls, in order. *)
Methods == <<"application.<init>", "application.onCreate", "activity.<init>",
             "onCreate", "onStart", "onResume", "onPostResume">>

NoAdd == [by |-> "nobody", next |-> 0, view |-> "none", params |-> "none"]

NoView == [decor |-> "none", params |-> "none", added |-> FALSE, complete |-> FALSE,
           pending |-> FALSE, phase |-> "idle", visible |-> FALSE, first |-> FALSE,
           valid |-> FALSE, drawn |-> 0]

LaunchInit ==
    /\ pc = "create"
    /\ live = {} /\ edges = {} /\ roots = {} /\ held = {}
    /\ add = NoAdd
    /\ view = NoView
    /\ budget = [refusals |-> Refusals, changes |-> Changes]

-----------------------------------------------------------------------------
(* The heap *)

Follow(from) == from \cup {e[2] : e \in {e \in edges : e[1] \in from}}

(* What is marked after so many steps along the fields.  The arguments of  *)
(* addView are in registers of the bytecode that called it or, in the call *)
(* start_activity makes, fields of the Activity keep them: the collectors  *)
(* pass over native frames.                                                *)
Marked[n \in 0 .. Cardinality(Roles)] ==
    IF n = 0 THEN roots \cup ({add.view, add.params} \cap live)
    ELSE Follow(Marked[n - 1])

Reachable == Marked[Cardinality(Roles)]

InMethod == pc \in Elements(Methods)
Attached == \E i \in 4 .. Len(Methods) : pc = Methods[i]

(* What the C structures of the launch and of the ViewRoot point to has    *)
(* not been collected.                                                     *)
HostPointersLive == held \subseteq live

Survivors == {live, live \cap Reachable}

Refuse == budget.refusals > 0 /\ budget' = [budget EXCEPT !.refusals = @ - 1]
Change == budget.changes > 0 /\ budget' = [budget EXCEPT !.changes = @ - 1]

Field(from, to) == {<<from, to>>}

-----------------------------------------------------------------------------
(* create_game *)
CreateGame ==
    /\ pc = "create"
    /\ \/ /\ pc' = "objects"
          /\ live' = {"activity"} /\ roots' = {"activity"} /\ held' = {"activity"}
          /\ UNCHANGED budget
       \/ pc' = "failed" /\ Refuse /\ UNCHANGED <<live, roots, held>>
    /\ UNCHANGED <<edges, add, view>>

(* start_activity allocates its eight objects before it stores one of them; *)
(* so few objects on a new heap are far from the thresholds of a collection. *)
LaunchAllocate ==
    /\ pc = "objects"
    /\ LET made == Cardinality(held \cap Elements(LaunchObjects))
           o == LaunchObjects[made + 1]
       IN  \/ /\ live' = live \cup {o}
              /\ held' = held \cup {o}
              /\ IF made + 1 = Len(LaunchObjects)
                 THEN /\ roots' = roots \cup {"application", "appContext", "actContext", "intent"}
                      /\ pc' = Methods[1]
                 ELSE UNCHANGED <<roots, pc>>
              /\ UNCHANGED budget
           \/ pc' = "failed" /\ Refuse /\ UNCHANGED <<live, held, roots>>
    /\ UNCHANGED <<edges, add, view>>

\* fault: the window manager is left out
AttachFieldsNoManager ==
    ({"activity"} \X {"actContext", "application", "intent", "window", "decor"})
        \cup ({"window"} \X {"decor", "attributes"})

(* The fields that keep the objects, set when the constructors have run. *)
AttachFields ==
    ({"activity"} \X {"actContext", "application", "intent", "window", "manager", "decor"})
        \cup ({"window"} \X {"decor", "attributes"})

(* A method of the application returns; after the constructor of the       *)
(* Activity, start_activity attaches it.                                   *)
MethodReturns(i) ==
    /\ pc = Methods[i]
    /\ add.by = "nobody"
    /\ i = 3 => HostPointersLive
    /\ pc' = IF i = Len(Methods) THEN "cluster" ELSE Methods[i + 1]
    /\ edges' = edges \cup (CASE i = 1 -> Field("application", "appContext")
                              [] i = 3 -> AttachFields
                              [] OTHER -> {})
    /\ UNCHANGED <<live, roots, held, add, view, budget>>

(* start_activity attaches an Activity to storage that has been freed: of  *)
(* what follows nothing is claimed.                                        *)
AttachesFreed ==
    /\ pc = Methods[3]
    /\ ~HostPointersLive
    /\ pc' = "undefined"
    /\ UNCHANGED <<live, edges, roots, held, add, view, budget>>

MethodFails ==
    /\ InMethod
    /\ add.by = "nobody"
    /\ pc' = "failed"
    /\ Refuse
    /\ UNCHANGED <<live, edges, roots, held, add, view>>

(* Guest code allocates until a collection runs, or sets the visibility of *)
(* the decor, from a method or, later, from a callback.                     *)
GuestCollects ==
    /\ InMethod \/ pc = "resumed"
    /\ add.by = "nobody"
    /\ live # live \cap Reachable
    /\ live' = live \cap Reachable
    /\ UNCHANGED <<pc, edges, roots, held, add, view, budget>>

SetVisibility ==
    /\ Attached \/ pc = "resumed"
    /\ add.by = "nobody"
    /\ Change
    /\ view' = [view EXCEPT !.visible = ~@]
    /\ UNCHANGED <<pc, live, edges, roots, held, add>>

-----------------------------------------------------------------------------
(* WindowManager.addView, called by the application or by start_activity.  *)
(* Only the window's own attributes name an application window.            *)

\* fault: a second call is not refused
RefusesNever == FALSE

Refuses == "root" \in held

BeginAdd(by, v, p) ==
    /\ add.by = "nobody"
    /\ IF Refuses
       THEN /\ add' = [NoAdd EXCEPT !.by = IF by = "launch" THEN "refused" ELSE "nobody"]
            /\ UNCHANGED live
       ELSE /\ add' = [by |-> by, next |-> 1, view |-> v, params |-> p]
            /\ live' = live \cup {v, p}
    /\ UNCHANGED <<pc, edges, roots, held, budget>>

(* The interpreter absorbs the error of a refused call. *)
ApplicationAdds ==
    /\ Attached \/ pc = "resumed"
    /\ \E v \in {"decor", "ownView"}, p \in {"attributes", "ownParams"} :
          BeginAdd("application", v, p)
    /\ UNCHANGED view

(* The window cluster hides the decor before it adds it. *)
LaunchAdds ==
    /\ pc = "cluster"
    /\ BeginAdd("launch", "decor", "attributes")
    /\ view' = [view EXCEPT !.visible = FALSE]

\* fault: the session is stored when everything has been allocated
RootedLater(o) == IF o = "session" THEN {} ELSE
    CASE o = "root" -> Field("manager", "root")
      [] o = "attachInfo" -> Field("root", "attachInfo") \cup Field("attachInfo", add.view)
      [] o = "surface" -> {<<"root", "surface">>, <<"attachInfo", "surface">>, <<"surface", "window">>,
                           <<"root", "session">>}

(* Where agr_viewroot_add_view stores each object before the next one. *)
RootedBy(o) ==
    CASE o = "root" -> Field("manager", "root")
      [] o = "session" -> Field("root", "session")
      [] o = "attachInfo" -> Field("root", "attachInfo") \cup Field("attachInfo", add.view)
      [] o = "surface" -> {<<"root", "surface">>, <<"attachInfo", "surface">>, <<"surface", "window">>}

AddAllocates ==
    /\ add.next \in DOMAIN ViewRootObjects
    /\ LET o == ViewRootObjects[add.next]
       IN  \E kept \in Survivors :
              \/ /\ live' = kept \cup {o}
                 /\ held' = held \cup {o}
                 /\ edges' = edges \cup RootedBy(o)
                 /\ add' = [add EXCEPT !.next = @ + 1]
                 /\ UNCHANGED budget
              \/ /\ live' = kept
                 /\ add' = [NoAdd EXCEPT !.by = IF add.by = "launch" THEN "refused" ELSE "nobody"]
                 /\ Refuse
                 /\ UNCHANGED <<held, edges>>
    /\ UNCHANGED <<pc, roots, view>>

(* setView, requestLayout and the session's addToDisplay, which rejects a  *)
(* window of another type when the traversal is already scheduled.         *)
AddFinishes ==
    /\ add.next = Len(ViewRootObjects) + 1
    /\ LET typed == add.params = "attributes"
       IN  /\ view' = [view EXCEPT !.decor = add.view, !.params = add.params, !.added = TRUE,
                          !.pending = TRUE, !.phase = "scheduled", !.complete = typed]
           /\ edges' = edges \cup ({"root"} \X {add.view, add.params}) \cup Field(add.view, add.params)
                  \cup (IF typed THEN {<<"session", "window">>, <<add.view, "root">>,
                                       <<"manager", add.view>>, <<"manager", add.params>>} ELSE {})
           /\ add' = [NoAdd EXCEPT !.by = IF add.by = "launch" THEN "done" ELSE "nobody"]
    /\ held' = held \cup {add.view, add.params}
    /\ UNCHANGED <<pc, live, roots, budget>>

(* The end of the window cluster: visible, and handed to the ViewRoot. *)
ClusterEnds ==
    /\ pc = "cluster"
    /\ \/ /\ add.by = "done"
          /\ pc' = "resumed"
          /\ view' = [view EXCEPT !.visible = TRUE]
       \/ add.by = "refused" /\ pc' = "failed" /\ UNCHANGED view
    /\ add' = NoAdd
    /\ UNCHANGED <<live, edges, roots, held, budget>>

-----------------------------------------------------------------------------
(* agr_viewroot_do_traversal *)

Release(v) == [v EXCEPT !.valid = FALSE]

(* session_relayout past its gate and the allocation of the pixels. *)
Relayout(v) ==
    IF v.visible /\ ~v.valid
    THEN [v EXCEPT !.valid = TRUE, !.first = TRUE, !.drawn = 0]
    ELSE IF ~v.visible /\ v.valid THEN Release(v) ELSE v

\* fault: a new surface does not schedule the pass that draws it
CompletedOnce(v) ==
    [v EXCEPT !.first = FALSE, !.pending = FALSE, !.phase = "completed",
              !.drawn = IF v.valid THEN @ + 1 ELSE 0]

(* A new surface is drawn in the next pass. *)
Completed(v) ==
    LET again == v.first /\ v.valid
    IN  [v EXCEPT !.first = @ /\ ~again, !.pending = again,
                  !.phase = IF again THEN "scheduled" ELSE "completed",
                  !.drawn = IF v.valid THEN @ + 1 ELSE 0]

\* fault: a failed traversal is consumed
FailedConsumed(v) == [v EXCEPT !.pending = FALSE, !.phase = "completed"]

(* A failed traversal stays scheduled. *)
Failed(v) == [v EXCEPT !.pending = TRUE, !.phase = "scheduled"]

(* The hierarchy is attached; then a gate may refuse, the pixels may not   *)
(* be available, or the view may be wider than the display.                *)
Traverse ==
    /\ pc = "resumed"
    /\ view.complete /\ view.pending /\ view.phase = "scheduled"
    /\ \/ /\ view' = Completed(Relayout(view))
          /\ edges' = edges \cup {<<view.decor, "attachInfo">>, <<"session", "surface">>}
          /\ UNCHANGED budget
       \/ /\ view' = Failed(view)
          /\ edges' = edges \cup Field(view.decor, "attachInfo")
          /\ Refuse
    /\ UNCHANGED <<pc, live, roots, held, add>>

(* agr_dex_game_destroy: the surface goes before the heap it lies on. *)
Destroy ==
    /\ pc \in {"resumed", "failed"}
    /\ pc' = "destroyed"
    /\ view' = Release(view)
    /\ live' = {} /\ held' = {} /\ edges' = {} /\ roots' = {}
    /\ UNCHANGED <<add, budget>>

Done == pc \in {"destroyed", "undefined"} /\ UNCHANGED launchVars

LaunchNext ==
    \/ CreateGame \/ LaunchAllocate \/ MethodFails \/ AttachesFreed \/ GuestCollects \/ SetVisibility
    \/ \E i \in DOMAIN Methods : MethodReturns(i)
    \/ ApplicationAdds \/ LaunchAdds \/ AddAllocates \/ AddFinishes \/ ClusterEnds
    \/ Traverse \/ Destroy \/ Done

LaunchSpec == LaunchInit /\ [][LaunchNext]_launchVars

-----------------------------------------------------------------------------
(* Properties *)

(* No collection takes what C structures point to, whoever's call of       *)
(* addView or callback it runs in and however far the ViewRoot has got,    *)
(* except one in the constructors or in Application.onCreate, where only   *)
(* local variables of start_activity keep the window's objects.            *)
HostPointersKept ==
    [][HostPointersLive /\ ~HostPointersLive' => InMethod /\ ~Attached]_launchVars

(* A visible surface is not left undrawn: when no traversal is scheduled   *)
(* any more, a second pass has followed the one that acquired the surface, *)
(* failed passes not counted.                                              *)
SurfaceDrawn ==
    pc = "resumed" /\ view.phase = "completed" =>
        /\ ~view.pending
        /\ view.visible /\ view.valid => view.drawn >= 2

(* One ViewRoot for one window: a view that was added, by whomever, is not *)
(* replaced by another, and the launch resumes only with its own.           *)
AddedOnce ==
    [][/\ view.added => UNCHANGED <<view.decor, view.params>>
       /\ pc' = "resumed" => view'.decor = "decor" /\ view'.params = "attributes"]_launchVars
===============================================================================
