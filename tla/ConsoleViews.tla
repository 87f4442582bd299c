----------------------------- MODULE ConsoleViews -----------------------------
(***************************************************************************)
(* What the console makes of a dashboard: the map of the traffic           *)
(* (frontend/src/admin/lib/topology.js), the outlet in use                 *)
(* (RoutingWorkspace.jsx), the list of what to check first (diagnose.js)   *)
(* and the hosts (hosts.js).                                               *)
(*                                                                         *)
(* The path of the traffic is worked out twice from the same statuses: in  *)
(* Python, which sends it with the dashboard (build_traffic_routing), and  *)
(* in JavaScript, which trusts it only where its own reading agrees.       *)
(***************************************************************************)
EXTENDS Naturals, Sequences, FiniteSets, SequencesExt

CONSTANTS
    MaxCandidates,  \* bound: AI candidates of a snapshot
    Nodes           \* ids of managed AI nodes

ASSUME CandidatesAssumption == MaxCandidates \in Nat
ASSUME NodesAssumption == 0 \notin Nodes     \* which stands for no id

VARIABLE snapshot   \* the dashboard on screen, and the statistics it is joined with

-----------------------------------------------------------------------------
(* The statuses a dashboard is built from.                                  *)

\* broken: the probe itself failed, for which the report says "not reachable" and
\* probe_management_error.
Candidates == [selected : BOOLEAN, probe : {"yes", "no", "broken", "unknown"}]

\* confirmed: a dated report, applied, without an error of the synchronisation;
\* preserved: a failed probe that left the applied route as it was.
AiStatuses ==
    [status : {"applied", "probe_error", "idle", "fallback_to_primary", "unknown"},
     preserved : BOOLEAN, confirmed : BOOLEAN, scope : {"all", "classified", "mixed"}]

\* relayTo: the candidate the backup relays to; 0 stands for none of them.  target is
\* unknown where the record holds neither address.
DnsStatuses ==
    [enabled : BOOLEAN, configured : BOOLEAN, target : {"primary", "backup", "unknown"},
     mode : {"relay", "direct", "disabled"}, relayTo : {0, 1}]

DataPlanes == {"unconfigured", "unreachable", "reachable"}

\* Combinations no report or status holds are left out, and those that only differ
\* in what is not looked at.
ReportedAi == {a \in AiStatuses :
    /\ a.preserved => a.status = "probe_error"
    /\ a.scope # "classified" => a.confirmed /\ (a.status = "applied" \/ a.preserved)}
ReportedDns == {d \in DnsStatuses :
    /\ d.configured \/ d.target = "unknown" => d.enabled
    /\ ~d.configured => d.mode = "disabled"
    /\ d.mode # "relay" => d.relayTo = 0}

RoutingSnapshots ==
    [dp : DataPlanes, ai : ReportedAi, dns : ReportedDns, candidates : BoundedSeq(Candidates, MaxCandidates)]

SelectedOf(s) == {i \in DOMAIN s.candidates : s.candidates[i].selected}
TheSelected(s) == IF Cardinality(SelectedOf(s)) = 1 THEN CHOOSE i \in SelectedOf(s) : TRUE ELSE 0
BackupReady(s) == s.dns.enabled /\ s.dns.configured
AiInUse(s) == s.ai.confirmed /\ (s.ai.status = "applied" \/ s.ai.preserved)

-----------------------------------------------------------------------------
(* build_traffic_routing: the path, and the state of its two branches.      *)

Route(path, ordinary, ai) == [path |-> path, ordinary |-> ordinary, ai |-> ai]

ProbeOf(s, i) ==
    IF i \notin DOMAIN s.candidates THEN "unknown"
    ELSE CASE s.candidates[i].probe = "yes" -> "active"
           [] s.candidates[i].probe \in {"no", "broken"} -> "blocked"
           [] OTHER -> "unknown"

BackupRoute(s) ==
    CASE s.dns.mode = "relay"  -> Route("dns_backup_relay_ai", "standby", ProbeOf(s, s.dns.relayTo))
      [] s.dns.mode = "direct" -> Route("dns_backup_direct", "active", "standby")
      [] OTHER                 -> Route("dns_backup_unknown", "unknown", "unknown")

PrimaryRoute(s) ==
    CASE s.ai.confirmed /\ s.ai.status = "idle" ->
           Route("normal_direct", "active", "standby")
      [] s.ai.confirmed /\ s.ai.status \in {"fallback_to_primary", "probe_error"} /\ ~s.ai.preserved ->
           Route("normal_fallback", "active", "standby")
      [] AiInUse(s) /\ TheSelected(s) # 0 ->
           Route("normal_ai", IF s.ai.scope = "all" THEN "standby" ELSE "active", ProbeOf(s, TheSelected(s)))
      [] OTHER -> Route("normal_ai_pending", "active", "unknown")

TrafficRouting(s) ==
    IF s.dns.target = "unknown" \/ (s.dns.target = "backup" /\ ~BackupReady(s))
    THEN Route("unknown", "unknown", "unknown")
    ELSE IF s.dns.target = "backup" THEN BackupRoute(s)
    ELSE IF s.dp = "reachable" THEN PrimaryRoute(s)
    ELSE Route(IF BackupReady(s) THEN "dns_backup_pending" ELSE "unknown", "unknown", "unknown")

-----------------------------------------------------------------------------
(* buildTrafficTopology.                                                    *)

\* A broken probe proves nothing here.
ProbeState(s, i) ==
    IF i \notin DOMAIN s.candidates THEN "unknown"
    ELSE CASE s.candidates[i].probe = "yes" -> "standby"
           [] s.candidates[i].probe = "no"  -> "blocked"
           [] OTHER -> "unknown"

\* The console looks at the evidence for AI routing once more.
PathOf(s) ==
    LET path == TrafficRouting(s).path
    IN  IF path = "normal_ai" /\ (~AiInUse(s) \/ TheSelected(s) = 0) THEN "normal_ai_pending" ELSE path

Normal(s) == s.dp # "unconfigured"
NormalPaths == {"normal_ai", "normal_ai_pending", "normal_fallback", "normal_direct"}
BackupPaths == {"dns_backup_relay_ai", "dns_backup_direct", "dns_backup_unknown"}
Entry(s) ==
    CASE PathOf(s) \in NormalPaths /\ Normal(s)      -> "normal"
      [] PathOf(s) \in BackupPaths /\ BackupReady(s) -> "backup"
      [] OTHER                                       -> "none"

AllTraffic(s) == AiInUse(s) /\ s.ai.scope = "all" /\ PathOf(s) = "normal_ai"
DirectState(s) ==
    IF Entry(s) = "normal" /\ ~AllTraffic(s) THEN TrafficRouting(s).ordinary ELSE "standby"
AiState(s) ==
    IF PathOf(s) # "normal_ai" THEN "unknown"
    ELSE IF ProbeState(s, TheSelected(s)) = "standby" THEN TrafficRouting(s).ai
    ELSE ProbeState(s, TheSelected(s))
\* Seeded fault: the selected candidate is shown in use, probe or not.
CandidateStateTrusting(s, i) ==
    CASE Entry(s) = "normal" /\ PathOf(s) = "normal_ai" /\ i = TheSelected(s) -> "active"
      [] PathOf(s) = "normal_ai_pending"                                      -> "unknown"
      [] OTHER                                                                -> ProbeState(s, i)

CandidateState(s, i) ==
    CASE Entry(s) = "normal" /\ PathOf(s) = "normal_ai" /\ i = TheSelected(s) -> AiState(s)
      [] PathOf(s) = "normal_ai_pending"                                      -> "unknown"
      [] OTHER                                                                -> ProbeState(s, i)
RelayState(s) ==
    IF Entry(s) = "backup" /\ ProbeState(s, s.dns.relayTo) = "standby"
    THEN TrafficRouting(s).ai ELSE ProbeState(s, s.dns.relayTo)
BackupDirectState(s) ==
    IF Entry(s) = "backup" /\ PathOf(s) = "dns_backup_direct" THEN TrafficRouting(s).ordinary ELSE "standby"
BackupExitState(s) ==
    CASE PathOf(s) = "dns_backup_direct"   -> TrafficRouting(s).ordinary
      [] PathOf(s) = "dns_backup_relay_ai" -> RelayState(s)
      [] OTHER                             -> "standby"
EntryState(s, entry) == IF Entry(s) = entry THEN "active" ELSE "standby"

Relayed(s) == BackupReady(s) /\ s.dns.mode = "relay"
BackupDirect(s) == BackupReady(s) /\ s.dns.mode = "direct"
\* Nodes are named by their kind; the AI candidates are numbered as well.
At(kind) == <<kind, 0>>
Ai(i) == <<"ai", i>>
Node(id, state) == [id |-> id, state |-> state]
Edge(from, to, state) == [from |-> from, to |-> to, state |-> state]
If(condition, items) == IF condition THEN items ELSE {}

GraphNodes(s) ==
    {Node(At("client"), IF Entry(s) = "none" THEN "unknown" ELSE "active")}
      \cup If(Normal(s), {Node(At("normal"), EntryState(s, "normal")),
                          Node(At("normal-direct"), DirectState(s)), Node(At("ordinary-exit"), DirectState(s))})
      \cup If(BackupReady(s), {Node(At("backup"), EntryState(s, "backup")), Node(At("backup-exit"), BackupExitState(s))})
      \cup If(Relayed(s), {Node(At("backup-relay"), RelayState(s))})
      \cup If(BackupDirect(s), {Node(At("backup-direct"), BackupDirectState(s))})
      \cup {Node(Ai(i), CandidateState(s, i)) : i \in DOMAIN s.candidates}
      \cup If(s.candidates # <<>>, {Node(At("ai-exit"), IF Entry(s) = "normal" THEN AiState(s) ELSE "unknown")})

\* The way to a candidate that is not on the path shows its probe.
ToCandidate(s, i) ==
    LET state == CandidateState(s, i)
        onPath == Entry(s) = "normal" /\ i = TheSelected(s) /\ PathOf(s) \in {"normal_ai", "normal_ai_pending"}
    IN  IF onPath \/ state \in {"blocked", "unknown"} THEN state ELSE "standby"

GraphEdges(s) ==
    If(Normal(s),
       {Edge(At("client"), At("normal"),
             IF PathOf(s) \in {"dns_backup_pending", "unknown"} THEN "unknown" ELSE EntryState(s, "normal")),
        Edge(At("normal"), At("normal-direct"), DirectState(s)),
        Edge(At("normal-direct"), At("ordinary-exit"), DirectState(s))}
         \cup {Edge(At("normal"), Ai(i), ToCandidate(s, i)) : i \in DOMAIN s.candidates})
      \cup If(BackupReady(s), {Edge(At("client"), At("backup"), EntryState(s, "backup"))})
      \cup If(Relayed(s), {Edge(At("backup"), At("backup-relay"), RelayState(s)),
                           Edge(At("backup-relay"), At("backup-exit"), RelayState(s))})
      \cup If(BackupDirect(s), {Edge(At("backup"), At("backup-direct"), BackupDirectState(s)),
                                Edge(At("backup-direct"), At("backup-exit"), BackupDirectState(s))})
      \cup {Edge(Ai(i), At("ai-exit"), CandidateState(s, i)) : i \in DOMAIN s.candidates}

Warned(s) ==
    \/ PathOf(s) \in {"normal_ai_pending", "dns_backup_unknown", "dns_backup_pending", "unknown"}
    \/ PathOf(s) = "normal_ai" /\ AiState(s) # "active"
    \/ PathOf(s) = "dns_backup_relay_ai" /\ RelayState(s) # "active"

\* effectiveOutlet: the outlet of the page's first card, none when it is unclear.
Outlets(s) ==
    {n.id : n \in {m \in GraphNodes(s) :
        /\ m.state = "active"
        /\ \/ m.id[1] \in {"backup-relay", "ai"}
           \/ m.id[1] \in {"normal-direct", "backup-direct"}
                /\ PathOf(s) \in {"normal_fallback", "normal_direct", "dns_backup_direct"}}}

-----------------------------------------------------------------------------
(* buildChecklist: what is wrong, the dangers first; otherwise a good word. *)

Problems ==
    <<[tone |-> "warning", about |-> "data plane not configured"],
      [tone |-> "danger",  about |-> "data plane not running"],
      [tone |-> "danger",  about |-> "ai routing bad"],
      [tone |-> "warning", about |-> "forced direct"],
      [tone |-> "warning", about |-> "ai node unreachable"],
      [tone |-> "danger",  about |-> "dns incomplete"],
      [tone |-> "warning", about |-> "dns at backup"],
      [tone |-> "danger",  about |-> "probes failed"],
      [tone |-> "warning", about |-> "ports expired or over quota"],
      [tone |-> "danger",  about |-> "subscription differs"]>>
AllGood == [tone |-> "success", about |-> "nothing"]

\* The first two exclude each other.
AttentionSnapshots ==
    {[present |-> p] : p \in {q \in SUBSET DOMAIN Problems : ~ {1, 2} \subseteq q}}

\* The sort by tone is stable: among equals the order of the findings remains.
Before(j, k) ==
    IF Problems[j].tone = Problems[k].tone THEN j < k ELSE Problems[j].tone = "danger"
Position(s, k) == 1 + Cardinality({j \in s.present : Before(j, k)})

Checklist(s) ==
    IF s.present = {} THEN <<AllGood>>
    ELSE [i \in 1..Cardinality(s.present) |-> Problems[CHOOSE k \in s.present : Position(s, k) = i]]

\* The overview has room for three.
OverviewChecklist(s) == SubSeq(Checklist(s), 1, IF Len(Checklist(s)) < 3 THEN Len(Checklist(s)) ELSE 3)

-----------------------------------------------------------------------------
(* buildHostInventory: the dashboard's hosts, with details that only the    *)
(* statistics have, which are read on their own and may be older.           *)

HostStates == {"unconfigured", "running", "stopped", "reachable", "silent"}
AiHost(n) == <<"ai_node", n>>       \* `ai_node:${nodeId}`
AiHosts(nodes) == {AiHost(n) : n \in nodes}

HostSnapshots ==
    [dataPlane : HostStates, backup : {"running", "unconfigured"},
     aiNodes : UNION {[ns -> HostStates] : ns \in SUBSET Nodes},    \* by node_id
     detailed : SUBSET (AiHosts(Nodes) \cup {At("data_plane")})]    \* hosts of the statistics

Host(s, key, state) == [key |-> key, state |-> state, detailed |-> key \in s.detailed]
Hosts(s) ==
    {Host(s, At("data_plane"), s.dataPlane), Host(s, At("control_plane_backup"), s.backup)}
      \cup (IF DOMAIN s.aiNodes = {} THEN {Host(s, At("ai_node"), "unconfigured")}
            ELSE {Host(s, AiHost(n), s.aiNodes[n]) : n \in DOMAIN s.aiNodes})

HostTone(host) ==
    CASE host.state = "unconfigured"            -> "neutral"
      [] host.state \in {"running", "reachable"} -> "success"
      [] host.state = "stopped"                 -> "danger"
      [] OTHER                                  -> "warning"

-----------------------------------------------------------------------------
Unsynchronised == [empty |-> TRUE]

ViewsInit == snapshot = Unsynchronised

\* One dashboard arrives; the views are functions of it alone, so one is enough.
Sync ==
    /\ snapshot = Unsynchronised
    /\ snapshot' \in RoutingSnapshots \cup AttentionSnapshots \cup HostSnapshots

ViewsSpec == ViewsInit /\ [][Sync]_snapshot

-----------------------------------------------------------------------------
\* The map of the traffic is drawn and is true: no edge leads to a node that is not
\* there (TrafficTopology.jsx:49 would crash); the two languages agree on the path;
\* at most one entry carries traffic, the one DNS points at; traffic is shown
\* through an AI node only if a confirmed report has selected it alone and its
\* probe succeeded; and an outlet is named if and only if nothing is warned of.
TopologyHonest(s) ==
    LET nodes == GraphNodes(s)
        edges == GraphEdges(s)
    IN  /\ \A e \in edges : {e.from, e.to} \subseteq {n.id : n \in nodes}
        /\ \A m, n \in nodes : m.id = n.id => m = n
        /\ PathOf(s) = TrafficRouting(s).path
        /\ \A e \in edges : e.from = At("client") /\ e.state = "active" =>
            e.to = At(IF s.dns.target = "backup" THEN "backup" ELSE "normal")
        /\ \A i \in DOMAIN s.candidates : Node(Ai(i), "active") \in nodes =>
            AiInUse(s) /\ SelectedOf(s) = {i} /\ s.candidates[i].probe = "yes" /\ s.dp = "reachable"
        /\ Cardinality(Outlets(s)) <= 1 /\ (Outlets(s) = {} <=> Warned(s))

\* The overview never hides a blocking problem behind a lesser one, and never says
\* that all is well beside a problem.
ChecklistHonest(s) ==
    LET shown3 == OverviewChecklist(s)
        tones == {shown3[i].tone : i \in DOMAIN shown3}
    IN  /\ tones # {}
        /\ "success" \in tones <=> s.present = {}
        /\ "warning" \in tones =>
            \A j \in s.present : Problems[j].tone = "danger" => Problems[j] \in ToSet(shown3)

\* The hosts are those of the dashboard, each once, and look healthy only if the
\* dashboard says so: an older statistic neither adds nor revives a host.
HostsHonest(s) ==
    /\ {h.key : h \in Hosts(s)} \cap AiHosts(Nodes) = AiHosts(DOMAIN s.aiNodes)
    /\ \A g, h \in Hosts(s) : g.key = h.key => g = h
    /\ \A h \in Hosts(s) : HostTone(h) = "success" =>
        (CASE h.key = At("data_plane") -> s.dataPlane
           [] h.key = At("control_plane_backup") -> s.backup
           [] OTHER -> s.aiNodes[h.key[2]]) \in {"running", "reachable"}

SnapshotHonest ==
    /\ snapshot \in RoutingSnapshots => TopologyHonest(snapshot)
    /\ snapshot \in AttentionSnapshots => ChecklistHonest(snapshot)
    /\ snapshot \in HostSnapshots => HostsHonest(snapshot)
=============================================================================
