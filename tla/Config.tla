------------------------------- MODULE Config -------------------------------
(***************************************************************************)
(* The configuration and the main loop: the raw database the user edits,   *)
(* the work database the program uses (src/src/libconfig/cfg_db.c,         *)
(* cfg_schema.c, cfg_cmd.c), their commit and reload                       *)
(* (src/src/libcore/oonf_cfg.c) and the loop that starts, runs and ends    *)
(* the program (src/src/libcore/oonf_main.c).  Signals may come between    *)
(* any two steps.  A section type has one entry; sections have numbers as  *)
(* names, and 0 is the section without a name.                             *)
(*                                                                         *)
(* The subsystems and plugins come first                                   *)
(* (src/src/libcore/oonf_subsystem.c).  A subsystem is a number, and the   *)
(* tree of subsystems is walked in their order.  S.tree are the ones that  *)
(* are known, S.initialized those whose init was called, S.missing those   *)
(* with the flag _dependency_missing, and S.log is the history of the init *)
(* and cleanup calls.                                                      *)
(***************************************************************************)
EXTENDS Naturals, Integers, Sequences, SequencesExt

CONSTANTS Static,   \* subsystems linked into the program
          Dynamic,  \* plugins that are loaded when the configuration asks for them
          Deps      \* the dependencies of every subsystem, in order
ASSUME SubsystemAssumption ==
  Static \subseteq Nat /\ Dynamic \subseteq Nat /\ Static \cap Dynamic = {}
    /\ DOMAIN Deps = Static \cup Dynamic

\* broken: the init call fails; absent: there is no library of that name
NoSubsystems(broken, absent) ==
  [tree |-> Static, initialized |-> {}, missing |-> {}, broken |-> broken, absent |-> absent, log |-> <<>>]
InOrder(ids) == SetToSortSeq(ids, LAMBDA a, b : a < b)

Returns(S, r) == [S |-> S, r |-> r]
\* The value of an accumulator is needed several times, and computed once.
Then(acc, Op(_)) == CHOOSE r \in {Op(a) : a \in {acc}} : TRUE
RECURSIVE _init_plugin(_, _), _cleanup_plugin(_, _)
\* 0: initialized, -1: a subsystem is not known or failed, 1: one waits for itself
InitDependency(res, d) ==
  IF res.r # 0 THEN res
  ELSE IF d \notin res.S.tree THEN Returns(res.S, -1)
  ELSE IF d \in res.S.missing THEN Returns(res.S, 1)
  ELSE _init_plugin(res.S, d)

InitDependencies(S, p) ==
  FoldLeft(LAMBDA acc, d : Then(acc, LAMBDA res : InitDependency(res, d)), Returns([S EXCEPT !.missing = @ \cup {p}], 0), Deps[p])
CallInit(res, p) ==
  LET ready == [res.S EXCEPT !.missing = @ \ {p}]
  IN IF res.r # 0 THEN res
     ELSE IF p \in res.S.broken THEN Returns(ready, -1)
     ELSE Returns([ready EXCEPT !.initialized = @ \cup {p}, !.log = Append(@, <<"init", p>>)], 0)
_init_plugin(S, p) ==
  IF p \in S.initialized THEN Returns(S, 0) ELSE Then(InitDependencies(S, p), LAMBDA res : CallInit(res, p))

\* The subsystems that use this one come first.
CleanupUsers(S, p) ==
  FoldLeft(LAMBDA acc, user : IF p \in ToSet(Deps[user]) THEN Then(acc, LAMBDA a : _cleanup_plugin(a, user)) ELSE acc, S, InOrder(S.tree))
CallCleanup(S, p) == [S EXCEPT !.initialized = @ \ {p}, !.log = Append(@, <<"cleanup", p>>)]
_cleanup_plugin(S, p) == IF p \in S.initialized THEN Then(CleanupUsers(S, p), LAMBDA a : CallCleanup(a, p)) ELSE S

\* No subsystem sets can_cleanup, so one that is no longer asked for stays.
_unload_plugin(S, p, cleanup) == IF cleanup THEN [_cleanup_plugin(S, p) EXCEPT !.tree = @ \ {p}] ELSE S
oonf_subsystem_cleanup(S) == FoldLeft(LAMBDA acc, p : Then(acc, LAMBDA a : _unload_plugin(a, p, TRUE)), S, InOrder(S.tree))

oonf_subsystem_load(S, p) == IF p \in S.absent THEN S ELSE [S EXCEPT !.tree = @ \cup {p}]
LoadListed(S, plugins, failfast) ==
  FoldLeft(LAMBDA acc, p : IF acc.r # 0 \/ (failfast /\ p \in S.absent) THEN Returns(acc.S, -1)
                           ELSE Returns(oonf_subsystem_load(acc.S, p), 0), Returns(S, 0), InOrder(plugins))
InitAll(res) ==
  FoldLeft(LAMBDA acc, p : Then(acc, LAMBDA a : IF a.r # 0 THEN a ELSE _init_plugin(a.S, p)), res, InOrder(res.S.tree))
UnloadUnused(res, plugins) ==
  IF res.r # 0 THEN res
  ELSE Returns(FoldLeft(LAMBDA S, p : _unload_plugin(S, p, FALSE), res.S, InOrder((res.S.tree \cap Dynamic) \ plugins)), 0)
oonf_cfg_load_subsystems(S, plugins, failfast) ==
  Then(LoadListed(S, plugins, failfast), LAMBDA res : InitAll(UnloadUnused(res, plugins)))

-----------------------------------------------------------------------------
(* configuration *)

CONSTANTS Types,    \* section types
          Schema,   \* what each type looks like: mode, list, def, owner
          Files,    \* configurations that may be found in the file
          Budgets   \* how often each actor may act
ASSUME ConfigAssumption ==
  /\ DOMAIN Schema = Types
  /\ \A t \in Types : Schema[t].mode \in {"unnamed", "named", "mandatory", "default"}

NoName == 0
DefName == 1              \* def_name of a section type with a default name
Names == 0..2
Bad == 0                  \* the value the schema refuses
Values == 0..2
MaxValues == 2            \* values an entry holds at most
NoSection == [on |-> FALSE, val |-> <<>>]

VARIABLES raw, linked,    \* _oonf_raw_db, and whether it is linked to the schema
          work, old,      \* _oonf_work_db, and old_db while a change is applied
          view,           \* what the subscribers of the sections were told last
          sub,            \* the subsystems
          main,           \* where the main loop is, and its flags
          budget
vars == <<raw, linked, work, old, view, sub, main, budget>>
dbs == <<raw, linked, work, old>>

Spend(kind) == budget[kind] > 0 /\ budget' = [budget EXCEPT ![kind] = @ - 1]

-----------------------------------------------------------------------------
(* databases *)

cfg_db_add == [sec |-> [t \in Types |-> [n \in Names |-> NoSection]], plugins |-> {}]
Present(db, t) == {n \in Names : db.sec[t][n].on}
_cfg_db_add_section(db, t, n) == [db EXCEPT !.sec[t][n].on = TRUE]
\* A new value is put in front of the others.
cfg_db_set_entry(db, t, n, v) == [db EXCEPT !.sec[t][n] = [on |-> TRUE, val |-> <<v>> \o @.val]]
cfg_db_remove_entry(db, t, n) == [db EXCEPT !.sec[t][n].val = <<>>]
cfg_db_remove_namedsection(db, t, n) == [db EXCEPT !.sec[t][n] = NoSection]
cfg_db_remove_sectiontype(db, t) == [db EXCEPT !.sec[t] = [n \in Names |-> NoSection]]
\* The values of src come after those that are there.
_cfg_db_append(dst, src) ==
  [sec |-> [t \in Types |-> [n \in Names |->
             [on |-> dst.sec[t][n].on \/ src.sec[t][n].on, val |-> dst.sec[t][n].val \o src.sec[t][n].val]]],
   plugins |-> dst.plugins \cup src.plugins]
\* An entry of the section itself, of the one without a name, or the default.
cfg_db_get_entry_value(db, t, n) ==
  CASE db.sec[t][n].val # <<>> -> db.sec[t][n].val
    [] db.sec[t][n].val = <<>> /\ db.sec[t][NoName].val # <<>> -> db.sec[t][NoName].val
    [] OTHER -> Schema[t].def
cfg_schema_tobin(db, t, n) ==
  LET val == cfg_db_get_entry_value(db, t, n) IN IF Schema[t].list \/ val = <<>> THEN val ELSE SubSeq(val, 1, 1)

-----------------------------------------------------------------------------
(* validation *)

cfg_schema_add_section(p) == {t \in Types : Schema[t].owner = p}
Known(S) == UNION {cfg_schema_add_section(p) : p \in S.tree}
\* Of an entry that is no list only the first value is looked at.
cfg_validate(v) == v # Bad
_validate_cfg_entry(t, val) ==
  IF Schema[t].list THEN \A i \in DOMAIN val : cfg_validate(val[i]) ELSE val = <<>> \/ cfg_validate(val[1])
Named(t) == Schema[t].mode # "unnamed"
SectionValid(db, t) ==
  \A n \in Present(db, t) : (Named(t) \/ n = NoName) /\ _validate_cfg_entry(t, db.sec[t][n].val)
MandatorySection(db, t) == Schema[t].mode = "mandatory" => Present(db, t) \ {NoName} # {}

\* Whether an entry is missing is asked for sections with a name only.
MandatoryEntry(db, t) ==
  Schema[t].def = <<>> /\ db.sec[t][NoName].val = <<>> => \A n \in Present(db, t) \ {NoName} : db.sec[t][n].val # <<>>
cfg_schema_validate(db, S, ignore_unknown) ==
  /\ \A t \in Types : Present(db, t) # {} => IF t \in Known(S) THEN SectionValid(db, t) ELSE ignore_unknown
  /\ \A t \in Known(S) : MandatorySection(db, t) /\ MandatoryEntry(db, t)
\* Clean up drops unknown types and all but the first value of an entry that is no list.
CleanedValue(t, s) ==
  IF Schema[t].list \/ s.val = <<>> THEN s ELSE [s EXCEPT !.val = SubSeq(@, 1, 1)]
Cleaned(db, S) ==
  [db EXCEPT !.sec = [t \in Types |-> [n \in Names |-> IF t \in Known(S) THEN CleanedValue(t, db.sec[t][n]) ELSE NoSection]]]

-----------------------------------------------------------------------------
(* telling the subscribers what changed *)

NotTold == [told |-> FALSE, val |-> <<>>]
\* A section type with a default name needs it while there is no named section.
_section_needs_default_named_one(db, t) == Schema[t].mode = "default" /\ Present(db, t) \subseteq {NoName}
\* The handler of a section: the section is gone, or its values are taken over.
cb_delta_handler(vw, post, t, n, there) ==
  [vw EXCEPT ![t][n] = IF there THEN [told |-> TRUE, val |-> cfg_schema_tobin(post, t, n)] ELSE NotTold]
_handle_named_section_change(vw, pre, post, t, n, startup, defs) ==
  LET isdef == Schema[t].mode = "default" /\ n = DefName
      before == pre.sec[t][n].on \/ (isdef /\ ~startup /\ defs.pre)
      after == post.sec[t][n].on \/ (isdef /\ defs.post)
      changed == (Named(t) /\ before # after) \/ cfg_db_get_entry_value(pre, t, n) # cfg_db_get_entry_value(post, t, n)
  IN IF Named(t) /\ n = NoName THEN vw
     ELSE IF changed \/ startup THEN cb_delta_handler(vw, post, t, n, after \/ ~Named(t)) ELSE vw
\* Mutant: sections that are gone are not looked at.
HandleNewOnly(vw, pre, post, t, startup) ==
  FoldLeft(LAMBDA acc, n : _handle_named_section_change(acc, pre, post, t, n, startup, [pre |-> FALSE, post |-> FALSE]),
           vw, InOrder(Present(post, t)))
\* One section type: new and changed sections, sections that are gone, an
\* unnamed one at the start, and the default section that comes or goes.
_handle_db_changes(vw, pre, post, t, startup) ==
  LET defs == [pre |-> ~startup /\ _section_needs_default_named_one(pre, t), post |-> _section_needs_default_named_one(post, t)]
      change(acc, n, start) == _handle_named_section_change(acc, pre, post, t, n, start, defs)
      kept == FoldLeft(LAMBDA acc, n : change(acc, n, startup), vw, InOrder(Present(post, t)))
      gone == FoldLeft(LAMBDA acc, n : change(acc, n, startup), kept, InOrder(Present(pre, t) \ Present(post, t)))
      unnamed == IF startup /\ ~Named(t) /\ Present(pre, t) = {} /\ Present(post, t) = {} THEN change(gone, NoName, TRUE) ELSE gone
  IN IF defs.pre # defs.post THEN change(unnamed, DefName, TRUE) ELSE unnamed

-----------------------------------------------------------------------------
(* start and main loop *)

Init ==
  /\ raw = cfg_db_add /\ linked = TRUE /\ work = cfg_db_add /\ old = cfg_db_add
  /\ view = [t \in Types |-> [n \in Names |-> NotTold]]
  /\ \E broken \in SUBSET Dynamic, absent \in SUBSET Dynamic : sub = NoSubsystems(broken, absent)
  /\ \E failfast \in BOOLEAN :
       main = [pc |-> "start", from |-> "start", todo |-> <<>>, first |-> TRUE, running |-> TRUE, reload |-> FALSE,
               commit |-> FALSE, failfast |-> failfast, late |-> {}]
  /\ budget \in Budgets

Goto(pc) == [main EXCEPT !.pc = pc]
\* The command line names the file with the configuration.
oonf_main ==
  /\ main.pc = "start"
  /\ \E file \in Files : \E loaded \in {oonf_cfg_load_subsystems(sub, file.plugins, main.failfast)} :
       /\ raw' = file /\ sub' = loaded.S
       /\ main' = IF loaded.r # 0 THEN Goto("cleanup") ELSE Goto("apply")
  /\ UNCHANGED <<linked, work, old, view, budget>>

\* oonf_cfg_apply in three parts: everything before the handlers, the handlers
\* of one section type after the other, and what comes after them.
Refused == IF main.from = "start" THEN Goto("cleanup") ELSE Goto("shutdown")
oonf_cfg_apply ==
  /\ main.pc = "apply"
  /\ \E loaded \in {oonf_cfg_load_subsystems(sub, raw.plugins, main.failfast)} :
       /\ sub' = loaded.S
       /\ IF loaded.r = 0 /\ linked /\ cfg_schema_validate(raw, loaded.S, ~main.failfast)
          THEN /\ old' = IF main.first THEN cfg_db_add ELSE work
               /\ work' = Cleaned(raw, loaded.S)
               /\ main' = [main EXCEPT !.pc = "handlers", !.todo = SetToSeq(Known(loaded.S)),
                                       !.late = IF main.first THEN {} ELSE @ \cup (Known(loaded.S) \ Known(sub))]
          ELSE main' = Refused /\ UNCHANGED <<old, work>>
  /\ UNCHANGED <<raw, linked, view, budget>>
CallHandlers ==
  /\ main.pc = "handlers" /\ main.todo # <<>>
  /\ view' = _handle_db_changes(view, old, work, Head(main.todo), main.first)
  /\ main' = [main EXCEPT !.todo = Tail(@)]
  /\ UNCHANGED <<dbs, sub, budget>>
Applied ==
  /\ main.pc = "handlers" /\ main.todo = <<>>
  /\ raw' = work /\ linked' = TRUE
  /\ main' = [main EXCEPT !.reload = FALSE, !.commit = FALSE, !.first = FALSE,
                          !.pc = CASE main.from = "start" -> IF main.running THEN "scheduler" ELSE "cleanup"
                                   [] main.from = "reload" -> "commit"
                                   [] OTHER -> "loop"]
  /\ old' = cfg_db_add /\ UNCHANGED <<work, view, sub, budget>>

oonf_main_shall_stop_scheduler == main.commit \/ main.reload \/ ~main.running
_handle_scheduling ==
  /\ main.pc = "scheduler" /\ oonf_main_shall_stop_scheduler
  /\ main' = Goto("reload")
  /\ UNCHANGED <<dbs, view, sub, budget>>
\* The file may be gone: then its old contents are gone, too, and the reload
\* is tried again and again.
ParseFile ==
  /\ main.pc = "reload" /\ main.reload
  /\ \/ \E file \in Files : raw' = file /\ main' = [Goto("apply") EXCEPT !.from = "reload"] /\ UNCHANGED budget
     \/ Spend("nofile") /\ raw' = cfg_db_add /\ main' = Goto("commit")
  /\ linked' = TRUE
  /\ UNCHANGED <<work, old, view, sub>>
NoReload ==
  /\ main.pc = "reload" /\ ~main.reload
  /\ main' = Goto("commit")
  /\ UNCHANGED <<dbs, view, sub, budget>>
CheckCommit ==
  /\ main.pc = "commit"
  /\ main' = IF main.commit THEN [Goto("apply") EXCEPT !.from = "commit"] ELSE Goto("loop")
  /\ UNCHANGED <<dbs, view, sub, budget>>
mainloop ==
  /\ main.pc = "loop"
  /\ main' = Goto(IF main.running THEN "scheduler" ELSE "shutdown")
  /\ UNCHANGED <<dbs, view, sub, budget>>
\* The scheduler runs for a while to let subsystems say goodbye.
oonf_subsystem_initiate_shutdown ==
  /\ main.pc = "shutdown"
  /\ main' = Goto("cleanup")
  /\ UNCHANGED <<dbs, view, sub, budget>>
Cleanup ==
  /\ main.pc = "cleanup"
  /\ sub' = oonf_subsystem_cleanup(sub)
  /\ main' = Goto("ended")
  /\ UNCHANGED <<dbs, view, budget>>

-----------------------------------------------------------------------------
(* signals and the console *)

quit_signal_handler ==
  /\ main.pc # "ended" /\ main.running /\ Spend("term")
  /\ main' = [main EXCEPT !.running = FALSE]
  /\ UNCHANGED <<dbs, view, sub>>
hup_signal_handler ==
  /\ main.pc # "ended" /\ ~main.reload /\ Spend("hup")
  /\ main' = [main EXCEPT !.reload = TRUE]
  /\ UNCHANGED <<dbs, view, sub>>

Console(kind) == main.pc = "scheduler" /\ Spend(kind) /\ UNCHANGED <<work, old, view, sub>>
Edit(db) == raw' = db /\ UNCHANGED <<linked, main>>
\* Several commands may be handled before the scheduler looks at the flags.
cfg_cmd_handle_set(t, n) ==
  /\ Console("edit")
  /\ \/ Edit(_cfg_db_add_section(raw, t, n))
     \/ Len(raw.sec[t][n].val) < MaxValues /\ \E v \in Values : Edit(cfg_db_set_entry(raw, t, n, v))
SetPlugin(p) == Console("edit") /\ Edit([raw EXCEPT !.plugins = @ \cup {p}])
\* A section with a name is removed with all other sections of its type.
cfg_cmd_handle_remove(t, n) ==
  /\ Present(raw, t) # {} /\ Console("edit")
  /\ \/ raw.sec[t][n].val # <<>> /\ Edit(cfg_db_remove_entry(raw, t, n))
     \/ n # NoName /\ raw.sec[t][n].on /\ Edit(cfg_db_remove_sectiontype(cfg_db_remove_namedsection(raw, t, n), t))
     \/ n = NoName /\ Edit(cfg_db_remove_sectiontype(raw, t))
cfg_cmd_handle_load ==
  /\ Console("load")
  /\ \E file \in Files : Edit(_cfg_db_append(raw, file))
oonf_cfg_rollback ==
  /\ Console("rollback")
  /\ raw' = work /\ linked' = FALSE /\ UNCHANGED main
\* The console checks the configuration before it asks for the commit.
_cb_handle_config ==
  /\ Console("commit")
  /\ main' = [main EXCEPT !.commit = @ \/ (linked /\ cfg_schema_validate(raw, sub, TRUE))]
  /\ UNCHANGED <<raw, linked>>

Next ==
  \/ oonf_main \/ oonf_cfg_apply \/ CallHandlers \/ Applied
  \/ _handle_scheduling \/ ParseFile \/ NoReload \/ CheckCommit \/ mainloop
  \/ oonf_subsystem_initiate_shutdown \/ Cleanup
  \/ quit_signal_handler \/ hup_signal_handler
  \/ \E t \in Types, n \in Names : cfg_cmd_handle_set(t, n)
  \/ \E p \in Dynamic : SetPlugin(p)
  \/ \E t \in Types, n \in Names : cfg_cmd_handle_remove(t, n)
  \/ cfg_cmd_handle_load \/ oonf_cfg_rollback \/ _cb_handle_config
Spec == Init /\ [][Next]_vars

-----------------------------------------------------------------------------
(* properties *)

\* What the subscribers should know of a database.
Wanted(db, t) ==
  CASE ~Named(t) -> {NoName}
    [] _section_needs_default_named_one(db, t) -> {DefName}
    [] OTHER -> Present(db, t) \ {NoName}
\* Not told: an unnamed section of a plugin loaded while the program runs that
\* has its default values, and values of the section without a name while the
\* default section stays (_handle_db_changes).
Excused(t, n) ==
  \/ t \in main.late /\ ~Named(t) /\ cfg_db_get_entry_value(work, t, n) = Schema[t].def
  \/ t \in main.late /\ _section_needs_default_named_one(work, t)
SubscribersKnow ==
  main.pc \in {"scheduler", "loop"} => \A t \in Known(sub), n \in Names :
    /\ n \in Wanted(work, t) /\ ~Excused(t, n) => view[t][n].told
    /\ view[t][n].told => n \in Wanted(work, t)
    /\ view[t][n].told /\ ~_section_needs_default_named_one(work, t) => view[t][n].val = cfg_schema_tobin(work, t, n)

\* Whatever was edited, loaded, rolled back or committed, a subscriber is only
\* ever told values the schema accepts, and never a section without an entry
\* it has to have (cfg_schema_validate).
ToldIsValid ==
  \A t \in Known(sub), n \in Names : view[t][n].told /\ Named(t) =>
    /\ view[t][n].val # <<>> /\ _validate_cfg_entry(t, view[t][n].val)
    /\ ~Schema[t].list => Len(view[t][n].val) = 1

\* A subsystem is initialized after all it depends on and cleaned up before
\* any of them, each at most once, also when one of them fails or a plugin
\* comes later (_init_plugin, _cleanup_plugin).
Count(call, p, i) == Len(SelectSeq(SubSeq(sub.log, 1, i), LAMBDA e : e = <<call, p>>))
Live(p, i) == Count("init", p, i) > Count("cleanup", p, i)
DependenciesFirst ==
  \A i \in DOMAIN sub.log :
    LET p == sub.log[i][2]
    IN /\ Count("init", p, i) = 1 /\ Count("cleanup", p, i) <= 1
       /\ \A d \in ToSet(Deps[p]) : Live(d, i)

=============================================================================
