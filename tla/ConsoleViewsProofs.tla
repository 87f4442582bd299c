-------------------------- MODULE ConsoleViewsProofs --------------------------
(***************************************************************************)
(* Proofs about what the console makes of a dashboard, for any number of   *)
(* AI candidates and of nodes: the map of the traffic is drawn and is      *)
(* true, the checklist hides no danger, and the hosts are the dashboard's. *)
(***************************************************************************)
EXTENDS ConsoleViews, FiniteSetTheorems, SequenceTheorems, TLAPS

-----------------------------------------------------------------------------
(* The hosts.                                                               *)

LEMMA HostFields ==
    ASSUME NEW s, NEW key, NEW state
    PROVE  Host(s, key, state).key = key /\ Host(s, key, state).state = state
BY DEF Host

LEMMA AiHostParts ==
    \A m, n : /\ AiHost(m) = AiHost(n) => m = n
              /\ AiHost(n)[2] = n /\ AiHost(n) # At("data_plane") /\ AiHost(n) # At("control_plane_backup")
              /\ AiHost(n) = At("ai_node") => n = 0
BY DEF AiHost, At

LEMMA FixedHosts ==
    /\ At("data_plane") # At("control_plane_backup")
    /\ At("ai_node") # At("data_plane") /\ At("ai_node") # At("control_plane_backup")
BY DEF At

\* The dashboard's hosts, as they are.
HostOf(s, h) ==
    \/ h = Host(s, At("data_plane"), s.dataPlane)
    \/ h = Host(s, At("control_plane_backup"), s.backup)
    \/ DOMAIN s.aiNodes = {} /\ h = Host(s, At("ai_node"), "unconfigured")
    \/ \E n \in DOMAIN s.aiNodes : h = Host(s, AiHost(n), s.aiNodes[n])

LEMMA HostsAre == \A s : \A h : h \in Hosts(s) <=> HostOf(s, h)
BY DEF Hosts, HostOf

LEMMA HostsAreHonest ==
    ASSUME NEW s \in HostSnapshots
    PROVE  HostsHonest(s)
<1>1. DOMAIN s.aiNodes \subseteq Nodes /\ 0 \notin Nodes
    BY NodesAssumption DEF HostSnapshots
<1>2. {h.key : h \in Hosts(s)} \cap AiHosts(Nodes) = AiHosts(DOMAIN s.aiNodes)
    <2>1. ASSUME NEW h \in Hosts(s), h.key \in AiHosts(Nodes) PROVE h.key \in AiHosts(DOMAIN s.aiNodes)
        <3>1. PICK m \in Nodes : h.key = AiHost(m)
            BY <2>1 DEF AiHosts
        <3>2. m # 0
            BY <1>1
        <3>3. \E n \in DOMAIN s.aiNodes : h = Host(s, AiHost(n), s.aiNodes[n])
            BY <3>1, <3>2, HostsAre, HostFields, AiHostParts DEF HostOf
        <3> QED BY <3>3, HostFields DEF AiHosts
    <2>2. ASSUME NEW n \in DOMAIN s.aiNodes PROVE \E h \in Hosts(s) : h.key = AiHost(n)
        BY HostsAre, HostFields DEF HostOf
    <2> QED BY <1>1, <2>1, <2>2 DEF AiHosts
<1>3. ASSUME NEW g \in Hosts(s), NEW h \in Hosts(s), g.key = h.key PROVE g = h
    <2>1. HostOf(s, g) /\ HostOf(s, h)
        BY HostsAre
    <2>2. \A n \in DOMAIN s.aiNodes : n # 0
        BY <1>1
    <2> QED BY <1>3, <2>1, <2>2, HostFields, AiHostParts, FixedHosts DEF HostOf
<1>4. ASSUME NEW h \in Hosts(s), HostTone(h) = "success"
      PROVE  (CASE h.key = At("data_plane") -> s.dataPlane
                [] h.key = At("control_plane_backup") -> s.backup
                [] OTHER -> s.aiNodes[h.key[2]]) \in {"running", "reachable"}
    <2>1. h.state \in {"running", "reachable"}
        BY <1>4 DEF HostTone
    <2>2. HostOf(s, h)
        BY HostsAre
    <2>3. CASE h = Host(s, At("data_plane"), s.dataPlane)
        BY <2>1, <2>3, HostFields, FixedHosts
    <2>4. CASE h = Host(s, At("control_plane_backup"), s.backup)
        BY <2>1, <2>4, HostFields, FixedHosts
    <2>5. ASSUME NEW n \in DOMAIN s.aiNodes, h = Host(s, AiHost(n), s.aiNodes[n])
          PROVE  (CASE h.key = At("data_plane") -> s.dataPlane
                    [] h.key = At("control_plane_backup") -> s.backup
                    [] OTHER -> s.aiNodes[h.key[2]]) \in {"running", "reachable"}
        <3>1. /\ h.key = AiHost(n) /\ h.key # At("data_plane") /\ h.key # At("control_plane_backup")
              /\ h.key[2] = n /\ s.aiNodes[n] \in {"running", "reachable"}
            BY <2>1, <2>5, HostFields, AiHostParts
        <3> QED BY <3>1
    <2>6. CASE h = Host(s, At("ai_node"), "unconfigured")
        BY <2>1, <2>6, HostFields
    <2> QED BY <2>2, <2>3, <2>4, <2>5, <2>6 DEF HostOf
<1> QED BY <1>2, <1>3, <1>4 DEF HostsHonest

-----------------------------------------------------------------------------
(* The checklist.  The positions of the findings are a permutation, so that *)
(* it lists each of them once, and whatever is before a warning that is     *)
(* shown is shown as well.                                                  *)

Findings(s) == s.present \subseteq DOMAIN Problems

LEMMA ProblemsAre ==
    /\ DOMAIN Problems = 1..10
    /\ \A k \in 1..10 : Problems[k].tone \in {"danger", "warning"}
<1>1. /\ Problems[1].tone = "warning" /\ Problems[2].tone = "danger" /\ Problems[3].tone = "danger"
      /\ Problems[4].tone = "warning" /\ Problems[5].tone = "warning" /\ Problems[6].tone = "danger"
      /\ Problems[7].tone = "warning" /\ Problems[8].tone = "danger" /\ Problems[9].tone = "warning"
      /\ Problems[10].tone = "danger"
    BY DEF Problems
<1>2. DOMAIN Problems = 1..10
    BY DEF Problems
<1>3. \A k \in 1..10 : k \in {1, 2, 3, 4, 5, 6, 7, 8, 9, 10}
    OBVIOUS
<1> QED BY <1>1, <1>2, <1>3

LEMMA BeforeOrders ==
    /\ \A j, k \in 1..10 : j # k => Before(j, k) \/ Before(k, j)
    /\ \A j \in 1..10 : ~Before(j, j)
    /\ \A i, j, k \in 1..10 : Before(i, j) /\ Before(j, k) => Before(i, k)
    /\ \A j, k \in 1..10 : Problems[j].tone = "danger" /\ Problems[k].tone = "warning" => Before(j, k)
<1> DEFINE tone(k) == Problems[k].tone
<1>1. \A k \in 1..10 : tone(k) \in {"danger", "warning"}
    BY ProblemsAre
<1>2. \A j, k : Before(j, k) <=> IF tone(j) = tone(k) THEN j < k ELSE tone(j) = "danger"
    BY DEF Before
<1> HIDE DEF tone
<1>3. /\ \A j, k \in 1..10 : j # k => Before(j, k) \/ Before(k, j)
      /\ \A j \in 1..10 : ~Before(j, j)
      /\ \A i, j, k \in 1..10 : Before(i, j) /\ Before(j, k) => Before(i, k)
    BY <1>1, <1>2
<1>4. \A j, k \in 1..10 : tone(j) = "danger" /\ tone(k) = "warning" => Before(j, k)
    BY <1>2
<1> QED BY <1>3, <1>4 DEF tone

LEMMA PositionsPermute ==
    ASSUME NEW s, Findings(s)
    PROVE  /\ IsFiniteSet(s.present) /\ Cardinality(s.present) \in Nat
           /\ \A k \in s.present : Position(s, k) \in 1..Cardinality(s.present)
           /\ \A j, k \in s.present : Before(j, k) => Position(s, j) < Position(s, k)
           /\ \A j, k \in s.present : Position(s, j) = Position(s, k) => j = k
           /\ \A i \in 1..Cardinality(s.present) : \E k \in s.present : Position(s, k) = i
<1> DEFINE n == Cardinality(s.present)
           Earlier(k) == {j \in s.present : Before(j, k)}
           position == [k \in s.present |-> Position(s, k)]
<1>1. s.present \subseteq 1..10
    BY ProblemsAre DEF Findings
<1>2. IsFiniteSet(s.present) /\ n \in Nat
    <2>1. IsFiniteSet(1..10)
        <3>1. 1 \in Int /\ 10 \in Int
            OBVIOUS
        <3> QED BY ONLY <3>1, FS_Interval
    <2>2. IsFiniteSet(s.present)
        BY <1>1, <2>1, FS_Subset
    <2> QED BY <2>2, FS_CardinalityType
<1>3. ASSUME NEW k \in s.present
      PROVE  /\ IsFiniteSet(Earlier(k)) /\ Cardinality(Earlier(k)) \in Nat
             /\ Cardinality(Earlier(k)) <= n /\ (Cardinality(Earlier(k)) = n => Earlier(k) = s.present)
    <2>1. Earlier(k) \in SUBSET s.present
        OBVIOUS
    <2> HIDE DEF Earlier
    <2> QED BY <1>2, <2>1, FS_Subset, FS_CardinalityType
<1>4. \A k \in s.present : Position(s, k) \in 1..n
    <2> SUFFICES ASSUME NEW k \in s.present PROVE Position(s, k) \in 1..n
        OBVIOUS
    <2>1. k \notin Earlier(k)
        BY <1>1, BeforeOrders
    <2>2. Cardinality(Earlier(k)) < n
        BY <1>2, <1>3, <2>1
    <2>3. Position(s, k) = 1 + Cardinality(Earlier(k))
        BY DEF Position
    <2> HIDE DEF Earlier, n
    <2> QED BY <1>2, <1>3, <2>2, <2>3
<1>5. ASSUME NEW j \in s.present, NEW k \in s.present, Before(j, k) PROVE Position(s, j) < Position(s, k)
    <2>1. Earlier(j) \in SUBSET Earlier(k) /\ j \in Earlier(k) /\ j \notin Earlier(j)
        BY <1>1, <1>5, BeforeOrders
    <2>2. Position(s, j) = 1 + Cardinality(Earlier(j)) /\ Position(s, k) = 1 + Cardinality(Earlier(k))
        BY DEF Position
    <2> HIDE DEF Earlier
    <2>3. /\ Cardinality(Earlier(j)) <= Cardinality(Earlier(k))
          /\ Cardinality(Earlier(k)) = Cardinality(Earlier(j)) => Earlier(k) = Earlier(j)
        BY <1>3, <2>1, FS_Subset
    <2> QED BY <1>3, <2>1, <2>2, <2>3
<1>6. \A j, k \in s.present : Position(s, j) = Position(s, k) => j = k
    <2> SUFFICES ASSUME NEW j \in s.present, NEW k \in s.present, j # k
                 PROVE  Position(s, j) # Position(s, k)
        OBVIOUS
    <2>1. Before(j, k) \/ Before(k, j)
        BY <1>1, BeforeOrders
    <2>2. Position(s, j) \in Int /\ Position(s, k) \in Int
        BY <1>4
    <2> QED BY <1>5, <2>1, <2>2
<1>7. position \in Injection(s.present, 1..n)
    BY <1>4, <1>6 DEF Injection, IsInjective
<1>8. IsFiniteSet(1..n) /\ Cardinality(1..n) = n
    BY <1>2, FS_Interval
<1>9. position \in Surjection(s.present, 1..n)
    <2> HIDE DEF position, n
    <2>1. Cardinality(s.present) = Cardinality(1..n)
        BY <1>8 DEF n
    <2> QED BY <1>7, <1>8, <2>1, FS_Injection
<1>10. \A i \in 1..n : \E k \in s.present : Position(s, k) = i
    BY <1>9 DEF Surjection
<1> QED BY <1>2, <1>4, <1>5, <1>6, <1>10

\* The overview shows the first findings, three at most, in their order.
LEMMA OverviewShows ==
    ASSUME NEW s, Findings(s), s.present # {}
    PROVE  \E m \in 1..3 :
             /\ m <= Cardinality(s.present) /\ (m < 3 => m = Cardinality(s.present))
             /\ DOMAIN OverviewChecklist(s) = 1..m
             /\ \A i \in 1..m : \E k \in s.present :
                    Position(s, k) = i /\ OverviewChecklist(s)[i] = Problems[k]
<1> DEFINE n == Cardinality(s.present)
           nth(i) == CHOOSE k \in s.present : Position(s, k) = i
           list == [i \in 1..n |-> Problems[nth(i)]]
           m == IF n < 3 THEN n ELSE 3
<1>1. Checklist(s) = list
    BY DEF Checklist
<1>2. IsFiniteSet(s.present) /\ n \in Nat /\ n # 0
    <2>1. IsFiniteSet(s.present) /\ n \in Nat
        BY PositionsPermute
    <2>2. n # 0
        BY <2>1, FS_EmptySet
    <2> QED BY <2>1, <2>2
<1>3. ASSUME NEW i \in 1..n PROVE nth(i) \in s.present /\ Position(s, nth(i)) = i
    <2>1. \E k \in s.present : Position(s, k) = i
        BY PositionsPermute
    <2> QED BY <2>1
<1> HIDE DEF n, nth
<1>4. Len(list) = n /\ \A i \in 1..n : list[i] = Problems[nth(i)]
    BY <1>2
<1>5. m \in 1..3 /\ m <= n /\ (m < 3 => m = n)
    BY <1>2
<1>6. OverviewChecklist(s) = SubSeq(list, 1, m)
    BY <1>1, <1>4 DEF OverviewChecklist
<1> DEFINE items == {list[i] : i \in 1..m}
<1> HIDE DEF list, m
<1>7. \A i \in 1..m : list[i] \in items
    OBVIOUS
<1> HIDE DEF items
<1>8. /\ SubSeq(list, 1, m) \in Seq(items) /\ Len(SubSeq(list, 1, m)) = m
      /\ \A i \in 1..m : SubSeq(list, 1, m)[i] = list[i]
    <2>1. m \in Int /\ 1 \in Int /\ 1 <= m /\ m - 1 + 1 = m /\ \A i \in 1..m : 1 + i - 1 = i
        BY <1>5
    <2>2. /\ SubSeq(list, 1, m) \in Seq(items)
          /\ Len(SubSeq(list, 1, m)) = IF 1 <= m THEN m - 1 + 1 ELSE 0
          /\ \A i \in 1..(m - 1 + 1) : SubSeq(list, 1, m)[i] = list[1 + i - 1]
        BY <1>7, <2>1, SubSeqProperties
    <2> QED BY <2>1, <2>2
<1>9. DOMAIN SubSeq(list, 1, m) = 1..m
    BY <1>8
<1>10. \A i \in 1..m : \E k \in s.present : Position(s, k) = i /\ OverviewChecklist(s)[i] = Problems[k]
    BY <1>3, <1>4, <1>5, <1>6, <1>8
<1> QED BY <1>5, <1>6, <1>9, <1>10 DEF n

LEMMA ChecklistIsHonest ==
    ASSUME NEW s \in AttentionSnapshots
    PROVE  ChecklistHonest(s)
<1> DEFINE shown3 == OverviewChecklist(s)
           tones == {shown3[i].tone : i \in DOMAIN shown3}
<1>1. Findings(s)
    BY DEF AttentionSnapshots, Findings
<1>2. CASE s.present = {}
    <2>1. Checklist(s) = <<AllGood>>
        BY <1>2 DEF Checklist
    <2>2. shown3 = SubSeq(<<AllGood>>, 1, 1)
        <3>1. Len(<<AllGood>>) = 1
            OBVIOUS
        <3> QED BY <2>1, <3>1 DEF OverviewChecklist
    <2>3. DOMAIN shown3 = {1} /\ shown3[1].tone = "success"
        <3> DEFINE good == AllGood
                   list == SubSeq(<<good>>, 1, 1)
        <3>1. list \in Seq({good}) /\ Len(list) = 1 /\ list[1] = good
            <4> HIDE DEF good
            <4>1. (\A i \in 1..1 : <<good>>[i] \in {good}) /\ 1 \in Int
                OBVIOUS
            <4> QED BY <4>1, SubSeqProperties
        <3>2. shown3 = list
            BY <2>2
        <3> HIDE DEF list, shown3
        <3>3. DOMAIN list = {1}
            BY <3>1
        <3> QED BY <3>1, <3>2, <3>3 DEF AllGood
    <2> HIDE DEF shown3
    <2>4. tones = {"success"}
        BY <2>3
    <2> HIDE DEF tones
    <2>5. tones # {} /\ ("success" \in tones <=> s.present = {}) /\ "warning" \notin tones
        BY <1>2, <2>4
    <2> QED BY <2>5 DEF ChecklistHonest, tones, shown3
<1>3. CASE s.present # {}
    <2>1. PICK m \in 1..3 :
             /\ m <= Cardinality(s.present) /\ (m < 3 => m = Cardinality(s.present))
             /\ DOMAIN shown3 = 1..m
             /\ \A i \in 1..m : \E k \in s.present : Position(s, k) = i /\ shown3[i] = Problems[k]
        BY <1>1, <1>3, OverviewShows
    <2> HIDE DEF shown3
    <2>2. \A k \in s.present : Problems[k].tone \in {"danger", "warning"}
        BY <1>1, ProblemsAre DEF Findings
    <2>3. tones # {} /\ "success" \notin tones
        BY <2>1, <2>2
    <2>4. ASSUME "warning" \in tones, NEW j \in s.present, Problems[j].tone = "danger"
          PROVE  Problems[j] \in ToSet(shown3)
        <3>1. PICK i \in 1..m, k \in s.present :
                Position(s, k) = i /\ shown3[i] = Problems[k] /\ Problems[k].tone = "warning"
            BY <2>1, <2>4
        <3>2. Before(j, k)
            BY <1>1, <2>4, <3>1, BeforeOrders, ProblemsAre DEF Findings
        <3>3. Position(s, j) < i /\ Position(s, j) \in 1..Cardinality(s.present)
            BY <1>1, <3>1, <3>2, PositionsPermute
        <3>4. Position(s, j) \in 1..m
            <4>1. Cardinality(s.present) \in Nat
                BY <1>1, PositionsPermute
            <4> QED BY <3>1, <3>3, <4>1
        <3>5. PICK l \in s.present : Position(s, l) = Position(s, j) /\ shown3[Position(s, j)] = Problems[l]
            BY <2>1, <3>4
        <3>6. l = j
            BY <1>1, <3>5, PositionsPermute
        <3> QED BY <2>1, <3>4, <3>5, <3>6 DEF ToSet
    <2> HIDE DEF tones
    <2>5. /\ tones # {} /\ ("success" \in tones <=> s.present = {})
          /\ "warning" \in tones =>
                \A j \in s.present : Problems[j].tone = "danger" => Problems[j] \in ToSet(shown3)
        BY <1>3, <2>3, <2>4
    <2> QED BY <2>5 DEF ChecklistHonest, tones, shown3
<1> QED BY <1>2, <1>3

-----------------------------------------------------------------------------
(* The map.  Every conclusion rests on the case the backend found itself    *)
(* in.                                                                      *)

Cases(s) ==
    \/ /\ s.dns.target = "backup" /\ BackupReady(s) /\ s.dns.mode = "relay"
       /\ TrafficRouting(s) = Route("dns_backup_relay_ai", "standby", ProbeOf(s, s.dns.relayTo))
    \/ /\ s.dns.target = "backup" /\ BackupReady(s) /\ s.dns.mode = "direct"
       /\ TrafficRouting(s) = Route("dns_backup_direct", "active", "standby")
    \/ /\ s.dns.target = "backup" /\ BackupReady(s)
       /\ TrafficRouting(s) = Route("dns_backup_unknown", "unknown", "unknown")
    \/ /\ s.dns.target = "unknown" \/ (s.dns.target = "backup" /\ ~BackupReady(s))
       /\ TrafficRouting(s) = Route("unknown", "unknown", "unknown")
    \/ /\ s.dns.target = "primary" /\ s.dp = "reachable"
       /\ \/ TrafficRouting(s) = Route("normal_direct", "active", "standby")
          \/ TrafficRouting(s) = Route("normal_fallback", "active", "standby")
          \/ TrafficRouting(s) = Route("normal_ai_pending", "active", "unknown")
    \/ /\ s.dns.target = "primary" /\ s.dp = "reachable" /\ AiInUse(s) /\ TheSelected(s) # 0
       /\ \E ordinary \in {"active", "standby"} :
            TrafficRouting(s) = Route("normal_ai", ordinary, ProbeOf(s, TheSelected(s)))
    \/ /\ s.dns.target = "primary"
       /\ \/ TrafficRouting(s) = Route("dns_backup_pending", "unknown", "unknown")
          \/ TrafficRouting(s) = Route("unknown", "unknown", "unknown")

LEMMA RoutingCases ==
    ASSUME NEW s \in RoutingSnapshots
    PROVE  Cases(s)
<1>1. s.dns.target \in {"primary", "backup", "unknown"}
    BY DEF RoutingSnapshots, ReportedDns, DnsStatuses
<1>2. CASE s.dns.target \in {"backup", "unknown"}
    BY <1>2 DEF Cases, TrafficRouting, BackupRoute
<1>3. CASE s.dns.target = "primary" /\ s.dp = "reachable"
    <2>1. TrafficRouting(s) = PrimaryRoute(s)
        BY <1>3 DEF TrafficRouting
    <2>2. \/ PrimaryRoute(s) = Route("normal_direct", "active", "standby")
          \/ PrimaryRoute(s) = Route("normal_fallback", "active", "standby")
          \/ PrimaryRoute(s) = Route("normal_ai_pending", "active", "unknown")
          \/ /\ AiInUse(s) /\ TheSelected(s) # 0
             /\ \E ordinary \in {"active", "standby"} :
                    PrimaryRoute(s) = Route("normal_ai", ordinary, ProbeOf(s, TheSelected(s)))
        BY DEF PrimaryRoute
    <2> QED BY <1>3, <2>1, <2>2 DEF Cases
<1>4. CASE s.dns.target = "primary" /\ s.dp # "reachable"
    <2>1. \/ TrafficRouting(s) = Route("dns_backup_pending", "unknown", "unknown")
          \/ TrafficRouting(s) = Route("unknown", "unknown", "unknown")
        BY <1>4 DEF TrafficRouting
    <2> QED BY <1>4, <2>1 DEF Cases
<1> QED BY <1>1, <1>2, <1>3, <1>4

LEMMA RouteFields ==
    \A path, ordinary, ai : /\ Route(path, ordinary, ai).path = path
                            /\ Route(path, ordinary, ai).ordinary = ordinary
                            /\ Route(path, ordinary, ai).ai = ai
BY DEF Route

\* The console's own look at the evidence never changes the path.
LEMMA PathsAgree ==
    ASSUME NEW s \in RoutingSnapshots
    PROVE  PathOf(s) = TrafficRouting(s).path
<1>1. TrafficRouting(s).path = "normal_ai" => AiInUse(s) /\ TheSelected(s) # 0
    BY RoutingCases, RouteFields DEF Cases
<1> QED BY <1>1 DEF PathOf

\* What follows from the path.
LEMMA PathMeans ==
    ASSUME NEW s \in RoutingSnapshots
    PROVE  /\ PathOf(s) \in NormalPaths \cup BackupPaths \cup {"dns_backup_pending", "unknown"}
           /\ PathOf(s) \in NormalPaths =>
                s.dns.target = "primary" /\ s.dp = "reachable" /\ Normal(s) /\ Entry(s) = "normal"
           /\ PathOf(s) \in BackupPaths => s.dns.target = "backup" /\ BackupReady(s) /\ Entry(s) = "backup"
           /\ PathOf(s) \notin NormalPaths \cup BackupPaths => Entry(s) = "none"
           /\ PathOf(s) = "normal_ai" =>
                /\ AiInUse(s) /\ TheSelected(s) # 0
                /\ TrafficRouting(s).ai = ProbeOf(s, TheSelected(s))
           /\ PathOf(s) \in {"normal_direct", "normal_fallback"} => TrafficRouting(s).ordinary = "active"
           /\ PathOf(s) = "dns_backup_direct" => TrafficRouting(s).ordinary = "active" /\ BackupDirect(s)
           /\ PathOf(s) = "dns_backup_relay_ai" =>
                Relayed(s) /\ TrafficRouting(s).ai = ProbeOf(s, s.dns.relayTo)
<1>1. PathOf(s) = TrafficRouting(s).path
    BY PathsAgree
<1>2. Cases(s)
    BY RoutingCases
<1>3. /\ PathOf(s) \in NormalPaths \cup BackupPaths \cup {"dns_backup_pending", "unknown"}
      /\ PathOf(s) \in NormalPaths => s.dns.target = "primary" /\ s.dp = "reachable"
      /\ PathOf(s) \in BackupPaths => s.dns.target = "backup" /\ BackupReady(s)
    BY <1>1, <1>2, RouteFields DEF Cases, NormalPaths, BackupPaths
<1>4. /\ PathOf(s) = "normal_ai" =>
           /\ AiInUse(s) /\ TheSelected(s) # 0
           /\ TrafficRouting(s).ai = ProbeOf(s, TheSelected(s))
      /\ PathOf(s) \in {"normal_direct", "normal_fallback"} => TrafficRouting(s).ordinary = "active"
    BY <1>1, <1>2, RouteFields DEF Cases
<1>5. /\ PathOf(s) = "dns_backup_direct" => TrafficRouting(s).ordinary = "active" /\ BackupDirect(s)
      /\ PathOf(s) = "dns_backup_relay_ai" =>
            Relayed(s) /\ TrafficRouting(s).ai = ProbeOf(s, s.dns.relayTo)
    BY <1>1, <1>2, RouteFields DEF Cases, BackupDirect, Relayed
<1>6. /\ PathOf(s) \in NormalPaths => Normal(s) /\ Entry(s) = "normal"
      /\ PathOf(s) \in BackupPaths => Entry(s) = "backup"
      /\ PathOf(s) \notin NormalPaths \cup BackupPaths => Entry(s) = "none"
    <2>1. NormalPaths \cap BackupPaths = {}
        BY DEF NormalPaths, BackupPaths
    <2>2. s.dp = "reachable" => Normal(s)
        BY DEF Normal
    <2> QED BY <1>3, <2>1, <2>2 DEF Entry
<1> QED BY <1>3, <1>4, <1>5, <1>6

\* A candidate selected alone.
LEMMA TheSelectedIs ==
    ASSUME NEW s \in RoutingSnapshots, TheSelected(s) # 0
    PROVE  SelectedOf(s) = {TheSelected(s)} /\ TheSelected(s) \in DOMAIN s.candidates
<1>1. PICK m \in 0..MaxCandidates : s.candidates \in [1..m -> Candidates]
    BY DEF RoutingSnapshots, BoundedSeq, SeqOf
<1>2. IsFiniteSet(SelectedOf(s))
    <2>1. m \in Int /\ 1 \in Int
        BY <1>1, CandidatesAssumption
    <2>2. IsFiniteSet(1..m)
        BY ONLY <2>1, FS_Interval
    <2>3. SelectedOf(s) \subseteq 1..m
        BY <1>1 DEF SelectedOf
    <2> QED BY <2>2, <2>3, FS_Subset
<1>3. Cardinality(SelectedOf(s)) = 1 /\ TheSelected(s) = CHOOSE i \in SelectedOf(s) : TRUE
    BY DEF TheSelected
<1>4. \E i : SelectedOf(s) = {i}
    BY <1>2, <1>3, FS_Singleton
<1> QED BY <1>3, <1>4 DEF SelectedOf

\* The probes as they are shown, and which states mean traffic.
LEMMA ProbeStates ==
    ASSUME NEW s, NEW i
    PROVE  /\ ProbeState(s, i) \in {"standby", "blocked", "unknown"}
           /\ ProbeState(s, i) = "standby" <=> i \in DOMAIN s.candidates /\ s.candidates[i].probe = "yes"
           /\ ProbeOf(s, i) = "active" <=> i \in DOMAIN s.candidates /\ s.candidates[i].probe = "yes"
BY DEF ProbeState, ProbeOf

LEMMA AiStateActive ==
    ASSUME NEW s \in RoutingSnapshots
    PROVE  AiState(s) = "active" <=>
             PathOf(s) = "normal_ai" /\ ProbeState(s, TheSelected(s)) = "standby"
<1>1. /\ ProbeState(s, TheSelected(s)) \in {"standby", "blocked", "unknown"}
      /\ ProbeState(s, TheSelected(s)) = "standby" => ProbeOf(s, TheSelected(s)) = "active"
    BY ProbeStates
<1>2. PathOf(s) = "normal_ai" => TrafficRouting(s).ai = ProbeOf(s, TheSelected(s))
    BY PathMeans
<1> QED BY <1>1, <1>2 DEF AiState

LEMMA CandidateActive ==
    ASSUME NEW s \in RoutingSnapshots, NEW i \in DOMAIN s.candidates
    PROVE  CandidateState(s, i) = "active" <=>
             PathOf(s) = "normal_ai" /\ i = TheSelected(s) /\ AiState(s) = "active"
BY PathMeans, ProbeStates DEF CandidateState, NormalPaths

LEMMA RelayActive ==
    ASSUME NEW s \in RoutingSnapshots, Relayed(s), RelayState(s) = "active"
    PROVE  PathOf(s) = "dns_backup_relay_ai"
<1>1. Entry(s) = "backup" /\ TrafficRouting(s).ai = "active"
    BY ProbeStates DEF RelayState
<1>2. TrafficRouting(s).path = "dns_backup_relay_ai"
    <2>1. PathOf(s) \in BackupPaths
        BY <1>1, PathMeans
    <2> QED BY <1>1, <2>1, PathsAgree, RoutingCases, RouteFields DEF Cases, BackupPaths
<1> QED BY <1>2, PathsAgree

\* The nodes, and the state of each, which its id alone determines.
NodeFound(s, n) ==
    \/ n = Node(At("client"), IF Entry(s) = "none" THEN "unknown" ELSE "active")
    \/ /\ Normal(s)
       /\ \/ n = Node(At("normal"), EntryState(s, "normal"))
          \/ n = Node(At("normal-direct"), DirectState(s))
          \/ n = Node(At("ordinary-exit"), DirectState(s))
    \/ /\ BackupReady(s)
       /\ \/ n = Node(At("backup"), EntryState(s, "backup"))
          \/ n = Node(At("backup-exit"), BackupExitState(s))
    \/ Relayed(s) /\ n = Node(At("backup-relay"), RelayState(s))
    \/ BackupDirect(s) /\ n = Node(At("backup-direct"), BackupDirectState(s))
    \/ \E i \in DOMAIN s.candidates : n = Node(Ai(i), CandidateState(s, i))
    \/ /\ s.candidates # <<>>
       /\ n = Node(At("ai-exit"), IF Entry(s) = "normal" THEN AiState(s) ELSE "unknown")

StateOf(s, id) ==
    CASE id = At("client")        -> IF Entry(s) = "none" THEN "unknown" ELSE "active"
      [] id = At("normal")        -> EntryState(s, "normal")
      [] id = At("normal-direct") -> DirectState(s)
      [] id = At("ordinary-exit") -> DirectState(s)
      [] id = At("backup")        -> EntryState(s, "backup")
      [] id = At("backup-exit")   -> BackupExitState(s)
      [] id = At("backup-relay")  -> RelayState(s)
      [] id = At("backup-direct") -> BackupDirectState(s)
      [] id = At("ai-exit")       -> IF Entry(s) = "normal" THEN AiState(s) ELSE "unknown"
      [] OTHER                    -> CandidateState(s, id[2])

LEMMA IfHolds == \A condition, items, x : x \in If(condition, items) <=> condition /\ x \in items
BY DEF If

LEMMA NodesAre == \A s, n : n \in GraphNodes(s) <=> NodeFound(s, n)
<1> TAKE s, n
<1> DEFINE client == {Node(At("client"), IF Entry(s) = "none" THEN "unknown" ELSE "active")}
           normal == {Node(At("normal"), EntryState(s, "normal")),
                      Node(At("normal-direct"), DirectState(s)), Node(At("ordinary-exit"), DirectState(s))}
           backup == {Node(At("backup"), EntryState(s, "backup")), Node(At("backup-exit"), BackupExitState(s))}
           relay == {Node(At("backup-relay"), RelayState(s))}
           direct == {Node(At("backup-direct"), BackupDirectState(s))}
           candidates == {Node(Ai(i), CandidateState(s, i)) : i \in DOMAIN s.candidates}
           exit == {Node(At("ai-exit"), IF Entry(s) = "normal" THEN AiState(s) ELSE "unknown")}
<1>1. GraphNodes(s) = client \cup If(Normal(s), normal) \cup If(BackupReady(s), backup) \cup If(Relayed(s), relay)
                        \cup If(BackupDirect(s), direct) \cup candidates \cup If(s.candidates # <<>>, exit)
    BY DEF GraphNodes
<1>2. NodeFound(s, n) <=>
        \/ n \in client
        \/ Normal(s) /\ n \in normal
        \/ BackupReady(s) /\ n \in backup
        \/ Relayed(s) /\ n \in relay
        \/ BackupDirect(s) /\ n \in direct
        \/ n \in candidates
        \/ s.candidates # <<>> /\ n \in exit
    BY DEF NodeFound
<1> HIDE DEF client, normal, backup, relay, direct, candidates, exit
<1> QED BY <1>1, <1>2, IfHolds

LEMMA NodeFields == \A id, state : Node(id, state).id = id /\ Node(id, state).state = state
BY DEF Node

\* The kinds of nodes are told apart by their names.
LEMMA IdsDiffer ==
    /\ \A k, l : At(k) = At(l) => k = l
    /\ \A k : At(k)[1] = k
    /\ \A i : Ai(i)[1] = "ai" /\ Ai(i)[2] = i
    /\ \A k, i : k # "ai" => At(k) # Ai(i)
BY DEF At, Ai

LEMMA NodeStates ==
    ASSUME NEW s, NEW n \in GraphNodes(s)
    PROVE  n = Node(n.id, StateOf(s, n.id))
<1>1. NodeFound(s, n)
    BY NodesAre
<1>2. ASSUME NEW i \in DOMAIN s.candidates, n = Node(Ai(i), CandidateState(s, i))
      PROVE  n = Node(n.id, StateOf(s, n.id))
    <2>1. n.id = Ai(i) /\ Ai(i)[2] = i
        BY <1>2, NodeFields, IdsDiffer
    <2>2. StateOf(s, Ai(i)) = CandidateState(s, Ai(i)[2])
        BY IdsDiffer DEF StateOf
    <2> QED BY <1>2, <2>1, <2>2
<1>3. ASSUME NEW k, NEW state, k # "ai", StateOf(s, At(k)) = state, n = Node(At(k), state)
      PROVE  n = Node(n.id, StateOf(s, n.id))
    BY <1>3, NodeFields
<1>4. /\ StateOf(s, At("client")) = IF Entry(s) = "none" THEN "unknown" ELSE "active"
      /\ StateOf(s, At("normal")) = EntryState(s, "normal")
      /\ StateOf(s, At("normal-direct")) = DirectState(s)
      /\ StateOf(s, At("ordinary-exit")) = DirectState(s)
      /\ StateOf(s, At("backup")) = EntryState(s, "backup")
      /\ StateOf(s, At("backup-exit")) = BackupExitState(s)
      /\ StateOf(s, At("backup-relay")) = RelayState(s)
      /\ StateOf(s, At("backup-direct")) = BackupDirectState(s)
      /\ StateOf(s, At("ai-exit")) = IF Entry(s) = "normal" THEN AiState(s) ELSE "unknown"
    BY IdsDiffer DEF StateOf
<1> QED BY <1>1, <1>2, <1>4, NodeFields DEF NodeFound

\* The edges.
EdgeFound(s, e) ==
    \/ /\ Normal(s)
       /\ \/ e = Edge(At("client"), At("normal"),
                    IF PathOf(s) \in {"dns_backup_pending", "unknown"} THEN "unknown" ELSE EntryState(s, "normal"))
          \/ e = Edge(At("normal"), At("normal-direct"), DirectState(s))
          \/ e = Edge(At("normal-direct"), At("ordinary-exit"), DirectState(s))
          \/ \E i \in DOMAIN s.candidates : e = Edge(At("normal"), Ai(i), ToCandidate(s, i))
    \/ BackupReady(s) /\ e = Edge(At("client"), At("backup"), EntryState(s, "backup"))
    \/ /\ Relayed(s)
       /\ \/ e = Edge(At("backup"), At("backup-relay"), RelayState(s))
          \/ e = Edge(At("backup-relay"), At("backup-exit"), RelayState(s))
    \/ /\ BackupDirect(s)
       /\ \/ e = Edge(At("backup"), At("backup-direct"), BackupDirectState(s))
          \/ e = Edge(At("backup-direct"), At("backup-exit"), BackupDirectState(s))
    \/ \E i \in DOMAIN s.candidates : e = Edge(Ai(i), At("ai-exit"), CandidateState(s, i))

LEMMA EdgesAre == \A s, e : e \in GraphEdges(s) <=> EdgeFound(s, e)
<1> TAKE s, e
<1> QED BY IfHolds DEF GraphEdges, EdgeFound

LEMMA EdgeFields ==
    \A from, to, state : /\ Edge(from, to, state).from = from /\ Edge(from, to, state).to = to
                         /\ Edge(from, to, state).state = state
BY DEF Edge

\* Both ends of every edge are drawn.
LEMMA EdgesEnd ==
    ASSUME NEW s \in RoutingSnapshots, NEW e \in GraphEdges(s)
    PROVE  {e.from, e.to} \subseteq {n.id : n \in GraphNodes(s)}
<1> DEFINE ids == {n.id : n \in GraphNodes(s)}
<1>1. ASSUME NEW id, NEW state, NodeFound(s, Node(id, state)) PROVE id \in ids
    BY <1>1, NodesAre, NodeFields
<1> HIDE DEF ids
<1>2. At("client") \in ids
    BY <1>1 DEF NodeFound
<1>3. Normal(s) => At("normal") \in ids /\ At("normal-direct") \in ids /\ At("ordinary-exit") \in ids
    BY <1>1 DEF NodeFound
<1>4. BackupReady(s) => At("backup") \in ids /\ At("backup-exit") \in ids
    BY <1>1 DEF NodeFound
<1>5. Relayed(s) => BackupReady(s) /\ At("backup-relay") \in ids
    BY <1>1 DEF NodeFound, Relayed
<1>6. BackupDirect(s) => BackupReady(s) /\ At("backup-direct") \in ids
    BY <1>1 DEF NodeFound, BackupDirect
<1>7. \A i \in DOMAIN s.candidates : Ai(i) \in ids
    BY <1>1 DEF NodeFound
<1>8. \A i \in DOMAIN s.candidates : At("ai-exit") \in ids
    <2> SUFFICES ASSUME NEW i \in DOMAIN s.candidates PROVE At("ai-exit") \in ids
        OBVIOUS
    <2>1. s.candidates # <<>>
        OBVIOUS
    <2> QED BY <1>1, <2>1 DEF NodeFound
<1>9. EdgeFound(s, e)
    BY EdgesAre
<1> QED BY <1>2, <1>3, <1>4, <1>5, <1>6, <1>7, <1>8, <1>9, EdgeFields DEF EdgeFound, ids

\* Traffic leaves the customer to the entry DNS points at.
LEMMA EntryFollowsDns ==
    ASSUME NEW s \in RoutingSnapshots, NEW e \in GraphEdges(s), e.from = At("client"), e.state = "active"
    PROVE  e.to = At(IF s.dns.target = "backup" THEN "backup" ELSE "normal")
<1>1. \/ e = Edge(At("client"), At("normal"),
                    IF PathOf(s) \in {"dns_backup_pending", "unknown"} THEN "unknown" ELSE EntryState(s, "normal"))
      \/ e = Edge(At("client"), At("backup"), EntryState(s, "backup"))
    <2>1. EdgeFound(s, e)
        BY EdgesAre
    <2>2. /\ At("client") # At("normal") /\ At("client") # At("normal-direct") /\ At("client") # At("backup")
          /\ At("client") # At("backup-relay") /\ At("client") # At("backup-direct")
          /\ \A i : At("client") # Ai(i)
        BY IdsDiffer
    <2> QED BY <2>1, <2>2, EdgeFields DEF EdgeFound
<1>2. \/ (e.to = At("normal") /\ Entry(s) = "normal")
      \/ (e.to = At("backup") /\ Entry(s) = "backup")
    BY <1>1, EdgeFields DEF EntryState
<1>3. /\ Entry(s) = "normal" => PathOf(s) \in NormalPaths
      /\ Entry(s) = "backup" => PathOf(s) \in BackupPaths
    BY PathMeans
<1> QED BY <1>2, <1>3, PathMeans

LEMMA ActiveCandidate ==
    ASSUME NEW s \in RoutingSnapshots, NEW i \in DOMAIN s.candidates, Node(Ai(i), "active") \in GraphNodes(s)
    PROVE  AiInUse(s) /\ SelectedOf(s) = {i} /\ s.candidates[i].probe = "yes" /\ s.dp = "reachable"
<1>1. CandidateState(s, i) = "active"
    <2>1. StateOf(s, Ai(i)) = CandidateState(s, Ai(i)[2]) /\ Ai(i)[2] = i
        BY IdsDiffer DEF StateOf
    <2> QED BY <2>1, NodeStates, NodeFields
<1>2. PathOf(s) = "normal_ai" /\ i = TheSelected(s) /\ ProbeState(s, i) = "standby"
    BY <1>1, CandidateActive, AiStateActive
<1>3. AiInUse(s) /\ TheSelected(s) # 0 /\ s.dp = "reachable"
    BY <1>2, PathMeans DEF NormalPaths
<1> QED BY <1>2, <1>3, TheSelectedIs, ProbeStates

\* The outlet named, one for each path that has one.
OutletIs(s, id) ==
    \/ PathOf(s) = "dns_backup_relay_ai" /\ RelayState(s) = "active" /\ id = At("backup-relay")
    \/ PathOf(s) = "dns_backup_direct" /\ id = At("backup-direct")
    \/ PathOf(s) \in {"normal_direct", "normal_fallback"} /\ id = At("normal-direct")
    \/ PathOf(s) = "normal_ai" /\ AiState(s) = "active" /\ id = Ai(TheSelected(s))

LEMMA OutletNodes ==
    \A s, id : id \in Outlets(s) <=>
        \/ Relayed(s) /\ RelayState(s) = "active" /\ id = At("backup-relay")
        \/ \E i \in DOMAIN s.candidates : CandidateState(s, i) = "active" /\ id = Ai(i)
        \/ /\ Normal(s) /\ DirectState(s) = "active" /\ id = At("normal-direct")
           /\ PathOf(s) \in {"normal_fallback", "normal_direct", "dns_backup_direct"}
        \/ /\ BackupDirect(s) /\ BackupDirectState(s) = "active" /\ id = At("backup-direct")
           /\ PathOf(s) \in {"normal_fallback", "normal_direct", "dns_backup_direct"}
<1> SUFFICES ASSUME NEW s, NEW id
    PROVE  id \in Outlets(s) <=>
        \/ Relayed(s) /\ RelayState(s) = "active" /\ id = At("backup-relay")
        \/ \E i \in DOMAIN s.candidates : CandidateState(s, i) = "active" /\ id = Ai(i)
        \/ /\ Normal(s) /\ DirectState(s) = "active" /\ id = At("normal-direct")
           /\ PathOf(s) \in {"normal_fallback", "normal_direct", "dns_backup_direct"}
        \/ /\ BackupDirect(s) /\ BackupDirectState(s) = "active" /\ id = At("backup-direct")
           /\ PathOf(s) \in {"normal_fallback", "normal_direct", "dns_backup_direct"}
    OBVIOUS
<1> DEFINE Names(n) ==
        /\ n.state = "active"
        /\ \/ n.id[1] \in {"backup-relay", "ai"}
           \/ n.id[1] \in {"normal-direct", "backup-direct"}
                /\ PathOf(s) \in {"normal_fallback", "normal_direct", "dns_backup_direct"}
<1>1. id \in Outlets(s) <=> \E n : NodeFound(s, n) /\ Names(n) /\ n.id = id
    BY NodesAre DEF Outlets
<1>2. \A k, state : Names(Node(At(k), state)) <=>
        /\ state = "active"
        /\ \/ k \in {"backup-relay", "ai"}
           \/ k \in {"normal-direct", "backup-direct"}
                /\ PathOf(s) \in {"normal_fallback", "normal_direct", "dns_backup_direct"}
    BY NodeFields, IdsDiffer
<1>3. \A i, state : Names(Node(Ai(i), state)) <=> state = "active"
    BY NodeFields, IdsDiffer
<1> HIDE DEF Names
<1> QED BY <1>1, <1>2, <1>3, NodeFields DEF NodeFound

LEMMA OutletsAre ==
    ASSUME NEW s \in RoutingSnapshots
    PROVE  \A id : id \in Outlets(s) <=> OutletIs(s, id)
<1> TAKE id
<1>1. \A i \in DOMAIN s.candidates :
        CandidateState(s, i) = "active" <=>
            PathOf(s) = "normal_ai" /\ i = TheSelected(s) /\ AiState(s) = "active"
    BY CandidateActive
<1>2. PathOf(s) = "normal_ai" => TheSelected(s) \in DOMAIN s.candidates
    BY PathMeans, TheSelectedIs
<1>3. Relayed(s) /\ RelayState(s) = "active" => PathOf(s) = "dns_backup_relay_ai"
    BY RelayActive
<1>4. PathOf(s) = "dns_backup_relay_ai" => Relayed(s)
    BY PathMeans
<1>5. PathOf(s) \in {"normal_direct", "normal_fallback"} =>
        Normal(s) /\ DirectState(s) = "active" /\ BackupDirectState(s) = "standby"
    BY PathMeans DEF NormalPaths, DirectState, AllTraffic, BackupDirectState
<1>6. PathOf(s) = "dns_backup_direct" =>
        BackupDirect(s) /\ DirectState(s) = "standby" /\ BackupDirectState(s) = "active"
    BY PathMeans DEF BackupPaths, DirectState, BackupDirectState
<1> QED BY <1>1, <1>2, <1>3, <1>4, <1>5, <1>6, OutletNodes DEF OutletIs

LEMMA OneOutlet ==
    ASSUME NEW s \in RoutingSnapshots
    PROVE  Cardinality(Outlets(s)) <= 1 /\ (Outlets(s) = {} <=> Warned(s))
<1>1. \A id : id \in Outlets(s) <=> OutletIs(s, id)
    BY OutletsAre
<1>2. Outlets(s) = {} \/ \E id : Outlets(s) = {id}
    <2>1. \A a, b \in Outlets(s) : a = b
        BY <1>1 DEF OutletIs
    <2> QED BY <2>1
<1>3. Cardinality(Outlets(s)) <= 1
    <2>1. Cardinality(Outlets(s)) \in {0, 1}
        BY <1>2, FS_EmptySet, FS_Singleton
    <2> QED BY <2>1
<1>4. Outlets(s) = {} <=>
        /\ ~(PathOf(s) = "dns_backup_relay_ai" /\ RelayState(s) = "active")
        /\ PathOf(s) \notin {"dns_backup_direct", "normal_direct", "normal_fallback"}
        /\ ~(PathOf(s) = "normal_ai" /\ AiState(s) = "active")
    BY <1>1 DEF OutletIs
<1>5. PathOf(s) \in NormalPaths \cup BackupPaths \cup {"dns_backup_pending", "unknown"}
    BY PathMeans
<1> QED BY <1>3, <1>4, <1>5 DEF Warned, NormalPaths, BackupPaths

LEMMA TopologyIsHonest ==
    ASSUME NEW s \in RoutingSnapshots
    PROVE  TopologyHonest(s)
<1>1. \A e \in GraphEdges(s) : {e.from, e.to} \subseteq {n.id : n \in GraphNodes(s)}
    BY EdgesEnd
<1>2. \A m, n \in GraphNodes(s) : m.id = n.id => m = n
    BY NodeStates
<1>3. PathOf(s) = TrafficRouting(s).path
    BY PathsAgree
<1>4. \A e \in GraphEdges(s) : e.from = At("client") /\ e.state = "active" =>
        e.to = At(IF s.dns.target = "backup" THEN "backup" ELSE "normal")
    BY EntryFollowsDns
<1>5. \A i \in DOMAIN s.candidates : Node(Ai(i), "active") \in GraphNodes(s) =>
        AiInUse(s) /\ SelectedOf(s) = {i} /\ s.candidates[i].probe = "yes" /\ s.dp = "reachable"
    BY ActiveCandidate
<1>6. Cardinality(Outlets(s)) <= 1 /\ (Outlets(s) = {} <=> Warned(s))
    BY OneOutlet
<1> QED BY <1>1, <1>2, <1>3, <1>4, <1>5, <1>6 DEF TopologyHonest

-----------------------------------------------------------------------------
\* Whatever dashboard is on screen, the console makes of it nothing that is not so,
\* with any number of candidates and nodes.
THEOREM DashboardTrue == ViewsSpec => []SnapshotHonest
<1>1. SnapshotHonest
    BY TopologyIsHonest, ChecklistIsHonest, HostsAreHonest DEF SnapshotHonest
<1> QED BY <1>1, PTL DEF ViewsSpec
=============================================================================
