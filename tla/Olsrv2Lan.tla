----------------------------- MODULE Olsrv2Lan ------------------------------
(***************************************************************************)
(* The locally attached networks of an OLSRv2 router (olsrv2_lan.c) and    *)
(* the plugins that fill the table: the configuration, as lines of the     *)
(* "lan" option (old_lan.c) or as named sections (the plugin olsrv2_lan),  *)
(* the import of kernel routes (lan_import.c) and the import of layer2     *)
(* neighbor addresses (olsrv2_l2import.c).                                 *)
(*                                                                         *)
(* The table has one entry per prefix, but no memory of who asked for it.  *)
(* Kernel routes reach lan_import over two sockets: events of the kernel,  *)
(* in their order, and the answers to a query, which may be older.         *)
(***************************************************************************)
EXTENDS Integers, Sequences, FiniteSets, FiniteSetsExt, TLC

CONSTANTS
  LanDomains,   \* indices of the routing domains, 1 .. n in the order of the list
  LanKeys,      \* prefixes (struct os_route_key)
  MetricMax,    \* RFC7181_METRIC_MAX
  MaxDistance,  \* 255
  Routes,       \* [LanKeys -> [metric, unicast, ours]], kernel routes
  Filters,      \* import filters that may be configured
  LanConfigs,   \* values of the "lan" option, sets of Lan lines
  LanSections,  \* contents of a section of olsrv2_lan
  L2Configs,    \* sections of olsrv2_l2import
  NoConfig

(* RFC7181_METRIC_INFINITE *)
Infinite == MetricMax + 1

(* struct olsrv2_lan_domaindata *)
DomainData == [active : BOOLEAN, metric : 0 .. Infinite, distance : 0 .. MaxDistance]

(* struct olsrv2_lan_entry *)
LanEntries == [data : [LanDomains -> DomainData], same : BOOLEAN]

(* struct _lan_data with its prefix; ext 0 is "all" *)
LanLines == [key : LanKeys, ext : LanDomains \cup {0}, metric : 1 .. MetricMax, distance : 0 .. MaxDistance]

(* struct _import_entry: what it matches (prefix length, list, table,      *)
(* protocol, metric and interface together), its domain or 0, the metric   *)
(* of the imported network and whether that ages *)
ImportEntries ==
  [matches : SUBSET LanKeys, ext : LanDomains \cup {0}, metric : 1 .. MetricMax, aging : BOOLEAN]

(* struct _l2export_data *)
L2ImportEntries == [ext : LanDomains \cup {0}, metric : 1 .. MetricMax, distance : 1 .. MaxDistance]

ASSUME LanAssumption ==
  /\ LanDomains = 1 .. Cardinality(LanDomains)
  /\ Filters \subseteq ImportEntries
  /\ \A c \in LanConfigs : c \subseteq LanLines
  /\ LanSections \subseteq LanLines
  /\ L2Configs \subseteq L2ImportEntries

VARIABLES
  lans,       \* _lan_tree: prefix -> an entry of LanEntries
  due,        \* _update_ansn of olsrv2_routing.c
  lanConf,    \* the "lan" lines in force
  lanSection, \* the section of olsrv2_lan in force, or NoConfig
  import,     \* the import filter, or NoConfig
  imported,   \* imported_lan_tree
  aging,      \* prefixes whose _aging_timer runs
  kernel,     \* routes the kernel has
  events,     \* what it told and lan_import has not read
  dump,       \* answers to a query that are not read yet
  l2conf,     \* the section of olsrv2_l2import, or NoConfig
  l2ips,      \* addresses of layer2 neighbors
  blurred     \* history variable: prefixes two sources asked for, or whose source was
              \* configured anew, or whose route the query answered late

lanVars == <<lans, due, lanConf, lanSection, import, imported, aging, kernel, events, dump, l2conf, l2ips, blurred>>

LanInit ==
  /\ lans = [k \in {} |-> 0] /\ due = FALSE /\ lanConf = {} /\ lanSection = NoConfig
  /\ import = NoConfig /\ imported = {} /\ aging = {}
  /\ kernel = {} /\ events = <<>> /\ dump = {}
  /\ l2conf = NoConfig /\ l2ips = {} /\ blurred = {}

-----------------------------------------------------------------------------
(* The table (olsrv2_lan.c).  Every change asks for a new ANSN.            *)

NoDomainData == [active |-> FALSE, metric |-> Infinite, distance |-> 0]

(* The comparison takes distance 0 for "not seen yet". *)
SameDistance(data) ==
  LET on == {d \in LanDomains : data[d].active}
      told == {d \in on : data[d].distance # 0}
  IN  told # {} => \A d \in on : d > Min(told) => data[d].distance = data[Min(told)].distance

olsrv2_lan_add(table, d, key, metric, distance) ==
  LET data == [(IF key \in DOMAIN table THEN table[key].data ELSE [x \in LanDomains |-> NoDomainData])
                 EXCEPT ![d] = [active |-> TRUE, metric |-> metric, distance |-> distance]]
  IN  (key :> [data |-> data, same |-> SameDistance(data)]) @@ table

(* The metric and the distance stay: they are the writer's business. *)
Deactivated(entry, d) == [entry EXCEPT !.data = [@ EXCEPT ![d] = [@ EXCEPT !.active = FALSE]]]

olsrv2_lan_remove(table, d, key) ==
  IF key \notin DOMAIN table THEN table
  ELSE LET entry == Deactivated(table[key], d)
       IN  IF \E x \in LanDomains : entry.data[x].active
           THEN (key :> entry) @@ table
           ELSE [k \in DOMAIN table \ {key} |-> table[k]]

(* The domains a source speaks of. *)
DomainsOf(ext) == IF ext = 0 THEN LanDomains ELSE {ext}

(* Add or remove a prefix in the domains of ext; the order does not matter. *)
AddAll(table, ext, key, metric, distance) ==
  FoldSet(LAMBDA d, t : olsrv2_lan_add(t, d, key, metric, distance), table, DomainsOf(ext))
RemoveAll(table, ext, key) ==
  FoldSet(LAMBDA d, t : olsrv2_lan_remove(t, d, key), table, DomainsOf(ext))

(* olsrv2_lan_add always, olsrv2_lan_remove when the entry exists. *)
DueAfterRemove(keys) == due \/ keys \cap DOMAIN lans # {}

-----------------------------------------------------------------------------
(* Who asks for a prefix.                                                  *)

ConfKeys == {line.key : line \in lanConf}
SectionKeys == IF lanSection = NoConfig THEN {} ELSE {lanSection.key}
L2Keys == IF l2conf = NoConfig THEN {} ELSE l2ips
Sources(key) == {s \in {"config", "section", "route", "layer2"} :
  \/ s = "config" /\ key \in ConfKeys
  \/ s = "section" /\ key \in SectionKeys
  \/ s = "route" /\ key \in imported
  \/ s = "layer2" /\ key \in L2Keys}
Blur == blurred' = blurred \cup {k \in LanKeys : Cardinality(Sources(k)') > 1}

-----------------------------------------------------------------------------
(* The configuration: old_lan.c and olsrv2_lan/olsrv2_lan.c.               *)

(* Domain 1 is the one with extension 0. *)
HasZero(line) == line.ext = 1 \/ line.distance = 0

(* A parameter that is 0 is refused when errno happens to be set: nobody   *)
(* clears it before strtoul. *)
_parse_lan_parameters(line, errno) == ~(errno /\ HasZero(line))

_parse_lan_array(table, lines, add, errno) ==
  FoldSet(LAMBDA line, t :
            IF add THEN AddAll(t, line.ext, line.key, line.metric, line.distance)
                   ELSE RemoveAll(t, line.ext, line.key),
          table, {line \in lines : _parse_lan_parameters(line, errno)})

(* First everything that was configured goes, then what is configured now  *)
(* comes. *)
LanConfigured(post, errno) ==
  _parse_lan_array(_parse_lan_array(lans, lanConf, FALSE, errno), post, TRUE, errno)

(* olsrv2_validate_lan let the new lines pass. *)
_cb_cfg_lan_changed(post, errno) ==
  /\ post # lanConf
  /\ lans' = LanConfigured(post, errno)
  /\ due' = \/ due
            \/ \E line \in lanConf : line.key \in DOMAIN lans /\ _parse_lan_parameters(line, errno)
            \/ \E line \in post : _parse_lan_parameters(line, errno)
  /\ lanConf' = post
  /\ UNCHANGED <<lanSection, import, imported, aging, kernel, events, dump, l2conf, l2ips>>
  /\ blurred' = blurred \cup {k \in LanKeys : Cardinality(Sources(k)') > 1}
                        \cup {line.key : line \in {l \in lanConf \cup post : ~_parse_lan_parameters(l, errno)}}

_apply_lan_data(table, line, add) ==
  IF line = NoConfig THEN table
  ELSE IF add THEN AddAll(table, line.ext, line.key, line.metric, line.distance)
              ELSE RemoveAll(table, line.ext, line.key)

_cb_cfg_olsrv2_lan_changed(post) ==
  /\ post # lanSection
  /\ lans' = _apply_lan_data(_apply_lan_data(lans, lanSection, FALSE), post, TRUE)
  /\ due' = (post # NoConfig \/ DueAfterRemove(SectionKeys))
  /\ lanSection' = post
  /\ UNCHANGED <<lanConf, import, imported, aging, kernel, events, dump, l2conf, l2ips>>
  /\ Blur

-----------------------------------------------------------------------------
(* lan_import.c                                                            *)

(* Multicast, link-local and loopback networks are never imported, nor is  *)
(* anything but a unicast route, our own routes or a route over a mesh     *)
(* interface. *)
_is_allowed_to_import(key) == Routes[key].unicast /\ ~Routes[key].ours

Matches(key) == import # NoConfig /\ _is_allowed_to_import(key) /\ key \in import.matches

ImportedDistance(key) ==
  CASE Routes[key].metric < 1 -> 1
    [] Routes[key].metric > MaxDistance -> MaxDistance
    [] OTHER -> Routes[key].metric

_add_lan(key) ==
  IF key \in imported THEN lans
  ELSE AddAll(lans, import.ext, key, import.metric, ImportedDistance(key))

_destroy_lan(key) == RemoveAll(lans, import.ext, key)

(* A route appears or vanishes; the aging timer of a network that goes is  *)
(* not stopped, what it does to the freed memory is left out. *)
_cb_rt_event(key, set) ==
  \/ /\ Matches(key) /\ set
     /\ lans' = _add_lan(key)
     /\ due' = (due \/ key \notin imported)
     /\ imported' = imported \cup {key}
     /\ aging' = IF import.aging THEN aging \cup {key} ELSE aging
  \/ /\ Matches(key) /\ ~set /\ key \in imported
     /\ lans' = _destroy_lan(key)
     /\ due' = DueAfterRemove({key})
     /\ imported' = imported \ {key}
     /\ aging' = aging \ {key}
  \/ /\ ~Matches(key) \/ (~set /\ key \notin imported)
     /\ UNCHANGED <<lans, due, imported, aging>>

(* The kernel changes a route and tells its listeners. *)
KernelChangesRoute(key) ==
  /\ kernel' = IF key \in kernel THEN kernel \ {key} ELSE kernel \cup {key}
  /\ events' = Append(events, [key |-> key, set |-> key \notin kernel])
  /\ UNCHANGED <<lans, due, lanConf, lanSection, import, imported, aging, dump, l2conf, l2ips, blurred>>

ReadEvent ==
  /\ events # <<>>
  /\ _cb_rt_event(Head(events).key, Head(events).set)
  /\ events' = Tail(events)
  /\ UNCHANGED <<lanConf, lanSection, import, kernel, dump, l2conf, l2ips>>
  /\ Blur

(* A prefix that the query still has to answer although the kernel told    *)
(* otherwise since. *)
Overtaken(key) == key \notin kernel \/ \E i \in DOMAIN events : events[i].key = key /\ ~events[i].set

_cb_query(key) ==
  /\ key \in dump
  /\ _cb_rt_event(key, TRUE)
  /\ dump' = dump \ {key}
  /\ UNCHANGED <<lanConf, lanSection, import, kernel, events, l2conf, l2ips>>
  /\ blurred' = blurred \cup {k \in LanKeys : Cardinality(Sources(k)') > 1}
                        \cup (IF Overtaken(key) THEN {key} ELSE {})

(* A filter is configured, changed or removed.  A new one asks the kernel  *)
(* for its routes unless a query is running; what an old one imported      *)
(* stays. *)
_cb_cfg_import_changed(f) ==
  /\ f # import
  /\ import' = f
  /\ imported' = IF f = NoConfig THEN {} ELSE imported
  /\ dump' = IF f # NoConfig /\ dump = {} THEN kernel ELSE dump
  /\ blurred' = blurred \cup imported \cup (IF f # NoConfig /\ dump # {} THEN LanKeys ELSE {})
  /\ UNCHANGED <<lans, due, lanConf, lanSection, aging, kernel, events, l2conf, l2ips>>

Aged(metric) == IF metric >= MetricMax \div 2 THEN MetricMax ELSE 2 * metric

(* The metric of an imported network doubles; the timer stops as soon as   *)
(* one domain has the largest one.  No new ANSN: the value is sent with    *)
(* the next TC. *)
_cb_metric_aging(key) ==
  /\ key \in aging
  /\ import # NoConfig
  /\ IF key \in DOMAIN lans
     THEN /\ lans' = [lans EXCEPT ![key].data = [d \in LanDomains |->
                        IF d \in DomainsOf(import.ext) THEN [@[d] EXCEPT !.metric = Aged(@)] ELSE @[d]]]
          /\ aging' = IF \E d \in DomainsOf(import.ext) : lans[key].data[d].metric >= MetricMax \div 2
                      THEN aging \ {key} ELSE aging
     ELSE UNCHANGED <<lans, aging>>
  /\ UNCHANGED <<due, lanConf, lanSection, import, imported, kernel, events, dump, l2conf, l2ips, blurred>>

-----------------------------------------------------------------------------
(* olsrv2_l2import.c                                                       *)

_cb_l2neigh_ip_added(key) ==
  /\ key \notin l2ips
  /\ l2ips' = l2ips \cup {key}
  /\ IF l2conf = NoConfig THEN UNCHANGED <<lans, due>>
     ELSE /\ lans' = AddAll(lans, l2conf.ext, key, l2conf.metric, l2conf.distance)
          /\ due' = TRUE
  /\ UNCHANGED <<lanConf, lanSection, import, imported, aging, kernel, events, dump, l2conf>>
  /\ Blur

_cb_l2neigh_ip_removed(key) ==
  /\ key \in l2ips
  /\ l2ips' = l2ips \ {key}
  /\ IF l2conf = NoConfig THEN UNCHANGED <<lans, due>>
     ELSE /\ lans' = RemoveAll(lans, l2conf.ext, key)
          /\ due' = DueAfterRemove({key})
  /\ UNCHANGED <<lanConf, lanSection, import, imported, aging, kernel, events, dump, l2conf>>
  /\ Blur

(* The layer2 database is not searched again; and a section that goes has  *)
(* left the tree before its networks are looked for, so they stay. *)
_cb_cfg_l2import_changed(c) ==
  /\ c # l2conf
  /\ l2conf' = c
  /\ blurred' = blurred \cup l2ips
  /\ UNCHANGED <<lans, due, lanConf, lanSection, import, imported, aging, kernel, events, dump, l2ips>>

-----------------------------------------------------------------------------
(* The domains in which some source wants the prefix. *)
Wanted(key) ==
  UNION ({DomainsOf(line.ext) : line \in {l \in lanConf : l.key = key}}
         \cup {IF key \in SectionKeys THEN DomainsOf(lanSection.ext) ELSE {}}
         \cup {IF key \in imported THEN DomainsOf(import.ext) ELSE {}}
         \cup {IF key \in L2Keys THEN DomainsOf(l2conf.ext) ELSE {}})

(* A prefix with a single source (configuration, lan_import.c,             *)
(* olsrv2_l2import.c) is in the table in exactly the domains that source   *)
(* speaks of, and what lan_import has imported are the kernel's routes     *)
(* that match its filter once everything the kernel said is read, however  *)
(* the answers of the query and the events are mixed. *)
LansHaveSource ==
  \A k \in LanKeys \ blurred :
    /\ {d \in LanDomains : k \in DOMAIN lans /\ lans[k].data[d].active} = Wanted(k)
    /\ (events = <<>> /\ k \notin dump /\ import # NoConfig) =>
         (k \in imported <=> k \in kernel /\ Matches(k))
=============================================================================
