------------------------------ MODULE TunProofs ------------------------------
(***************************************************************************)
(* Theorems about TunNetworking: what a session does to the routes is      *)
(* undone, what it excluded stays outside of the tunnel, and without TUN   *)
(* mode it leaves them alone, for every routing table, every list of       *)
(* subnets and every width of an address; and what the edits of the        *)
(* configuration do to every text.                                         *)
(***************************************************************************)
EXTENDS TunNetworking, FiniteSetTheorems, SequenceTheorems, WellFoundedInduction, TLAPS

\* What add_or_change_route may do to the table, whatever r is.
LEMMA AddOrChangeRouteEffect ==
  ASSUME NEW r, NEW done \in AddOrChangeRoute(r)
  PROVE  /\ done.table \subseteq table \cup {r}
         /\ table \ done.table \subseteq done.taken
         /\ \A q \in done.taken : q[1] = r[1] /\ q[2] = r[2]
         /\ done.taken # {} => r \in done.table
         /\ done.ok => r \in done.table
         /\ done.ok /\ r \in table => r \in done.taken
         /\ r[3] = Tun /\ ~adapter => ~done.ok
         /\ ~done.ok => done.table = table /\ done.taken = {}
  BY DEF AddOrChangeRoute

\* The three ways to a route: what each step of ApplyTunNetworking that runs a route
\* command does, beside its own bookkeeping.
RouteStep(r, done) ==
  /\ done \in AddOrChangeRoute(r)
  /\ table' = done.table
  /\ taken' = taken \cup done.taken
  /\ deletes' = IF done.ok THEN deletes \cup {r} ELSE deletes
  /\ UNCHANGED <<adapter, origin, stuck>>

LEMMA RouteStepUndo ==
  ASSUME UndoInv, NEW r, NEW done, RouteStep(r, done),
         pc \in {"exclude", "default", "bypass"},
         pc' \in {"exclude", "default", "bypass", "cleanup"}
  PROVE  UndoInv'
  <1>1. /\ done.table \subseteq table \cup {r}
        /\ table \ done.table \subseteq done.taken
        /\ done.ok => r \in done.table
        /\ done.ok /\ r \in table => r \in done.taken
        /\ r[3] = Tun /\ ~adapter => ~done.ok
        /\ ~done.ok => done.table = table /\ done.taken = {}
    BY AddOrChangeRouteEffect DEF RouteStep
  <1>2. /\ \A q \in origin' : q[3] # Tun
        /\ pc' \in {"idle", "build", "built"} => ~adapter'
        /\ pc' \in {"idle", "build", "built", "terminate"} => deletes' = {}
        /\ pc' \notin {"idle", "terminate"} => stuck' = {}
    BY DEF UndoInv, RouteStep
  <1>3. ~adapter' => \A q \in table' : q[3] # Tun
    BY <1>1 DEF UndoInv, RouteStep
  <1>4. \A q \in table' \ origin' : q[3] = Tun \/ q \in deletes' \cup stuck'
    BY <1>1 DEF UndoInv, RouteStep
  <1>5. origin' \ table' \subseteq taken'
    BY <1>1 DEF UndoInv, RouteStep
  <1>6. deletes' \cap origin' \subseteq taken'
    BY <1>1 DEF UndoInv, RouteStep
  <1> QED BY <1>2, <1>3, <1>4, <1>5, <1>6 DEF UndoInv

-----------------------------------------------------------------------------
(* Routes are undone.                                                      *)

LEMMA UndoInit == ASSUME TunInit PROVE UndoInv
  BY TunAssumption DEF TunInit, UndoInv

LEMMA UndoNext == ASSUME UndoInv, [TunNext]_vars PROVE UndoInv'
  <1>1. CASE StartVless
    BY <1>1, TunAssumption DEF StartVless, UndoInv, tun, net
  <1>2. CASE Build
    BY <1>2 DEF Build, UndoInv, tun, net, hist
  <1>3. CASE FailStart
    BY <1>3 DEF FailStart, UndoInv, tun, net, hist
  <1>4. CASE Launch
    BY <1>4 DEF Launch, UndoInv, hist
  <1>5. CASE WaitForAdapter
    BY <1>5 DEF WaitForAdapter, Fail, UndoInv, tun, net, hist
  <1>6. CASE ResolveHost
    BY <1>6 DEF ResolveHost, UndoInv, net, hist
  <1>7. CASE ExcludeServer
    <2>1. PICK ip \in targets : \E via \in GetBestRouteForDestination(ip) :
            IF via \in {None, Tun}
            THEN UNCHANGED <<upstream, net, taken, excluded>>
            ELSE \E done \in AddOrChangeRoute(HostRoute(ip, via)) :
                   RouteStep(HostRoute(ip, via), done)
      BY <1>7 DEF ExcludeServer, RouteStep
    <2>2. pc = "exclude" /\ pc' = "exclude" /\ UNCHANGED <<origin, stuck>>
      BY <1>7 DEF ExcludeServer
    <2>3. CASE UNCHANGED <<upstream, net, taken, excluded>>
      BY <2>2, <2>3 DEF UndoInv, net
    <2>4. CASE \E via \in GetBestRouteForDestination(ip) :
                 \E done \in AddOrChangeRoute(HostRoute(ip, via)) :
                   RouteStep(HostRoute(ip, via), done)
      BY <2>2, <2>4, RouteStepUndo
    <2> QED BY <2>1, <2>3, <2>4
  <1>8. CASE SetAddress
    BY <1>8 DEF SetAddress, Fail, DefaultRoute, UndoInv, tun, hist
  <1>9. CASE AddDefaultRoute
    <2>1. PICK done \in AddOrChangeRoute(DefaultRoute) : RouteStep(DefaultRoute, done)
      BY <1>9 DEF AddDefaultRoute, RouteStep
    <2>2. pc = "default" /\ pc' \in {"bypass", "cleanup"}
      BY <1>9 DEF AddDefaultRoute, Fail
    <2> QED BY <2>1, <2>2, RouteStepUndo
  <1>10. CASE AddBypass
    <2> DEFINE r == <<Network(Head(bypass).ip, Head(bypass).prefix), Head(bypass).prefix, Tun>>
    <2>1. pc = "bypass" /\ pc' = "bypass" /\ UNCHANGED <<adapter, origin, stuck>>
      BY <1>10 DEF AddBypass
    <2>2. CASE UNCHANGED <<table, deletes, taken, bypassed>>
      BY <2>1, <2>2 DEF UndoInv
    <2>3. CASE \E done \in AddOrChangeRoute(r) : RouteStep(r, done)
      BY <2>1, <2>3, RouteStepUndo
    <2>4. \/ UNCHANGED <<table, deletes, taken, bypassed>>
          \/ \E done \in AddOrChangeRoute(r) : RouteStep(r, done)
      BY <1>10 DEF AddBypass, RouteStep
    <2> QED BY <2>2, <2>3, <2>4
  <1>11. CASE SetDns
    BY <1>11 DEF SetDns, Fail, UndoInv, net, hist
  <1>12. CASE Stop
    BY <1>12 DEF Stop, UndoInv, tun, net, hist
  <1>13. CASE CleanupTunNetworking
    BY <1>13 DEF CleanupTunNetworking, UndoInv
  <1>14. CASE Terminate
    BY <1>14 DEF Terminate, WithoutAdapter, UndoInv, hist
  <1>15. CASE AdapterComes
    BY <1>15 DEF AdapterComes, UndoInv, tun, hist
  <1>16. CASE AdapterGoes
    BY <1>16 DEF AdapterGoes, WithoutAdapter, UndoInv, tun, hist
  <1>17. CASE UNCHANGED vars
    BY <1>17 DEF vars, UndoInv, net, hist
  <1> QED
    BY <1>1, <1>2, <1>3, <1>4, <1>5, <1>6, <1>7, <1>8, <1>9, <1>10, <1>11, <1>12, <1>13,
       <1>14, <1>15, <1>16, <1>17 DEF TunNext

\* After a session or a failed start (Start, Stop, CleanupTunNetworking), a route is new
\* only if its delete command failed, and missing only if a change had taken it over.
THEOREM RoutesUndoneHolds == TunSpec => []RoutesUndone
  <1>1. UndoInv => RoutesUndone
    BY DEF UndoInv, RoutesUndone
  <1> QED BY UndoInit, UndoNext, <1>1, PTL DEF TunSpec

-----------------------------------------------------------------------------
(* What is excluded stays outside.                                         *)

\* A route command that does not lead a single address into the tunnel keeps every route
\* to a single address, and makes none into the tunnel.
LEMMA RouteStepHost ==
  ASSUME HostInv, NEW r, NEW done, RouteStep(r, done), r[2] \in 0 .. Width,
         bypass' \in Seq(Subnets), UNCHANGED call,
         r[2] = Width /\ r[3] = Tun => (done.ok => <<r[1], Width>> \in bypassed'),
         bypassed \subseteq bypassed',
         pc \in {"exclude", "default", "bypass"},
         \A ip \in excluded' \ excluded : done.ok /\ r[1] = ip /\ r[2] = Width
  PROVE  HostInv'
  <1>1. /\ done.table \subseteq table \cup {r}
        /\ table \ done.table \subseteq done.taken
        /\ \A q \in done.taken : q[1] = r[1] /\ q[2] = r[2]
        /\ done.taken # {} => r \in done.table
        /\ done.ok => r \in done.table
        /\ ~done.ok => done.table = table /\ done.taken = {}
    BY AddOrChangeRouteEffect DEF RouteStep
  <1>2. \A q \in table' : q[2] \in 0 .. Width
    BY <1>1 DEF HostInv, RouteStep
  <1>3. \A q \in table' : q[2] = Width /\ q[3] = Tun => <<q[1], Width>> \in bypassed'
    BY <1>1 DEF HostInv, RouteStep
  <1>4. \A ip \in excluded' : <<ip, Width>> \notin bypassed'
          => \E q \in table' : q[1] = ip /\ q[2] = Width
    <2> SUFFICES ASSUME NEW ip \in excluded', <<ip, Width>> \notin bypassed'
                 PROVE  \E q \in table' : q[1] = ip /\ q[2] = Width
      OBVIOUS
    <2>1. CASE ip \notin excluded
      BY <1>1, <2>1 DEF RouteStep
    <2>2. CASE ip \in excluded
      <3>1. PICK q \in table : q[1] = ip /\ q[2] = Width
        BY <2>2 DEF HostInv
      <3> QED BY <1>1, <3>1 DEF RouteStep
    <2> QED BY <2>1, <2>2
  <1> QED BY <1>2, <1>3, <1>4 DEF HostInv

LEMMA HostInit == ASSUME TunInit PROVE HostInv
  <1>1. <<>> \in Seq(Subnets)
    OBVIOUS
  <1>2. \A r \in table : r[2] \in 0 .. Width /\ r[3] # Tun
    BY TunAssumption DEF TunInit, Routes
  <1> QED BY <1>1, <1>2 DEF TunInit, HostInv, NoCall

LEMMA HostNext == ASSUME HostInv, [TunNext]_vars PROVE HostInv'
  <1>1. CASE StartVless
    <2>1. call'.bypass \in Seq(Subnets)
      BY <1>1, TunAssumption DEF StartVless
    <2>2. \A r \in table : r[2] \in 0 .. Width /\ r[3] # Tun
      BY <1>1, TunAssumption DEF StartVless, Routes
    <2> QED BY <1>1, <2>1, <2>2 DEF StartVless, HostInv, tun, net
  <1>2. CASE Build
    BY <1>2 DEF Build, HostInv, tun, net, hist
  <1>3. CASE FailStart
    BY <1>3 DEF FailStart, HostInv, NoCall, tun, net, hist
  <1>4. CASE Launch
    <2>1. bypass' \in Seq(Subnets)
      BY <1>4 DEF Launch, HostInv
    <2> QED BY <1>4, <2>1 DEF Launch, HostInv, NoCall, hist
  <1>5. CASE WaitForAdapter
    BY <1>5 DEF WaitForAdapter, Fail, HostInv, tun, net, hist
  <1>6. CASE ResolveHost
    BY <1>6 DEF ResolveHost, HostInv, net, hist
  <1>7. CASE ExcludeServer
    <2>1. PICK ip \in targets : \E via \in GetBestRouteForDestination(ip) :
            IF via \in {None, Tun}
            THEN UNCHANGED <<upstream, net, taken, excluded>>
            ELSE \E done \in AddOrChangeRoute(HostRoute(ip, via)) :
                   /\ RouteStep(HostRoute(ip, via), done)
                   /\ excluded' = IF done.ok THEN excluded \cup {ip} ELSE excluded
      BY <1>7 DEF ExcludeServer, RouteStep
    <2>2. pc = "exclude" /\ pc' = "exclude" /\ UNCHANGED <<call, bypass, bypassed>>
      BY <1>7 DEF ExcludeServer
    <2>3. CASE UNCHANGED <<upstream, net, taken, excluded>>
      BY <2>2, <2>3 DEF HostInv, net
    <2>4. ASSUME NEW via \in GetBestRouteForDestination(ip), via \notin {None, Tun},
                 NEW done \in AddOrChangeRoute(HostRoute(ip, via)),
                 RouteStep(HostRoute(ip, via), done),
                 excluded' = IF done.ok THEN excluded \cup {ip} ELSE excluded
          PROVE  HostInv'
      <3> DEFINE r == HostRoute(ip, via)
      <3>1. r[1] = ip /\ r[2] = Width /\ r[3] # Tun
        BY <2>4 DEF HostRoute
      <3>2. r[2] \in 0 .. Width
        BY <3>1, TunAssumption
      <3>3. bypass' \in Seq(Subnets)
        BY <2>2 DEF HostInv
      <3> HIDE DEF r
      <3> QED BY <2>2, <2>4, <3>1, <3>2, <3>3, RouteStepHost DEF r
    <2> QED BY <2>1, <2>3, <2>4
  <1>8. CASE SetAddress
    <2>1. DefaultRoute[2] \in 0 .. Width /\ DefaultRoute[2] # Width
      BY TunAssumption DEF DefaultRoute
    <2> QED BY <1>8, <2>1 DEF SetAddress, Fail, HostInv, tun, hist
  <1>9. CASE AddDefaultRoute
    <2>1. PICK done \in AddOrChangeRoute(DefaultRoute) : RouteStep(DefaultRoute, done)
      BY <1>9 DEF AddDefaultRoute, RouteStep
    <2>2. pc = "default" /\ UNCHANGED <<call, bypass, excluded, bypassed>>
      BY <1>9 DEF AddDefaultRoute, tun
    <2>3. DefaultRoute[2] \in 0 .. Width /\ DefaultRoute[2] # Width
      BY TunAssumption DEF DefaultRoute
    <2>4. bypass' \in Seq(Subnets)
      BY <2>2 DEF HostInv
    <2> QED BY <2>1, <2>2, <2>3, <2>4, RouteStepHost
  <1>10. CASE AddBypass
    <2> DEFINE r == <<Network(Head(bypass).ip, Head(bypass).prefix), Head(bypass).prefix, Tun>>
    <2>1. pc = "bypass" /\ UNCHANGED <<pc, call, excluded, adapter, origin, stuck>>
      BY <1>10 DEF AddBypass
    <2>2. Head(bypass) \in Subnets /\ bypass' \in Seq(Subnets)
      BY <1>10 DEF AddBypass, HostInv
    <2>3. CASE UNCHANGED <<table, deletes, taken, bypassed>>
      BY <2>1, <2>2, <2>3 DEF HostInv
    <2>4. ASSUME NEW done \in AddOrChangeRoute(r), RouteStep(r, done),
                 bypassed' = IF done.ok THEN bypassed \cup {<<r[1], r[2]>>} ELSE bypassed
          PROVE  HostInv'
      <3>1. r[2] \in 0 .. Width
        BY <2>2 DEF Subnets
      <3> HIDE DEF r
      <3> QED BY <2>1, <2>2, <2>4, <3>1, RouteStepHost
    <2>5. \/ UNCHANGED <<table, deletes, taken, bypassed>>
          \/ \E done \in AddOrChangeRoute(r) :
               /\ RouteStep(r, done)
               /\ bypassed' = IF done.ok THEN bypassed \cup {<<r[1], r[2]>>} ELSE bypassed
      BY <1>10 DEF AddBypass, RouteStep
    <2> QED BY <2>3, <2>4, <2>5
  <1>11. CASE SetDns
    BY <1>11 DEF SetDns, Fail, HostInv, net, hist
  <1>12. CASE Stop
    BY <1>12 DEF Stop, HostInv, tun, net, hist
  <1>13. CASE CleanupTunNetworking
    BY <1>13 DEF CleanupTunNetworking, HostInv
  <1>14. CASE Terminate
    BY <1>14 DEF Terminate, WithoutAdapter, HostInv, hist
  <1>15. CASE AdapterComes
    BY <1>15 DEF AdapterComes, HostInv, tun, hist
  <1>16. CASE AdapterGoes
    BY <1>16 DEF AdapterGoes, WithoutAdapter, HostInv, tun, hist
  <1>17. CASE UNCHANGED vars
    BY <1>17 DEF vars, HostInv, tun, net, hist
  <1> QED
    BY <1>1, <1>2, <1>3, <1>4, <1>5, <1>6, <1>7, <1>8, <1>9, <1>10, <1>11, <1>12, <1>13,
       <1>14, <1>15, <1>16, <1>17 DEF TunNext

\* While a session is up, an address that ApplyTunNetworking excluded is not routed into
\* the tunnel, unless bypass_subnets lists that very address.
THEOREM NoLoopHolds == TunSpec => []NoLoop
  <1>1. HostInv => NoLoop
    <2> SUFFICES ASSUME HostInv, pc = "up", NEW ip \in excluded, <<ip, Width>> \notin bypassed,
                        Tun \in BestVias(ip)
                 PROVE  FALSE
      BY DEF NoLoop
    <2>1. PICK host \in table : host[1] = ip /\ host[2] = Width
      BY DEF HostInv
    <2>2. PICK m \in table : /\ m[3] = Tun /\ Covers(m, ip)
                             /\ \A n \in table : Covers(n, ip) => n[2] <= m[2]
      BY DEF BestVias
    <2>3. Covers(host, ip)
      BY <2>1 DEF Covers
    <2>4. m[2] = Width
      BY <2>1, <2>2, <2>3, TunAssumption DEF HostInv
    <2>5. m[1] = ip
      BY <2>2, <2>4 DEF Covers, Network
    <2> QED BY <2>2, <2>4, <2>5 DEF HostInv
  <1> QED BY HostInit, HostNext, <1>1, PTL DEF TunSpec

-----------------------------------------------------------------------------
(* A session without a tunnel.                                             *)

\* Without TUN mode nothing is routed, recorded or to be undone.
ProxyLeavesRoutes == transport = "proxy" => table = origin /\ deletes = {} /\ ~dns /\ ~adapter

ProxyInv ==
  /\ ProxyLeavesRoutes
  /\ pc \in {"build", "built"} => table = origin
  /\ pc \in {"idle", "build", "built"} => transport = "idle"
  /\ pc \in {"wait", "exclude", "default", "bypass"} => transport = "tun"

LEMMA ProxyInit == ASSUME TunInit PROVE ProxyInv
  BY DEF TunInit, ProxyInv, ProxyLeavesRoutes

LEMMA ProxyNext == ASSUME UndoInv, ProxyInv, [TunNext]_vars PROVE ProxyInv'
  <1> USE DEF ProxyInv, ProxyLeavesRoutes
  <1>1. CASE StartVless
    BY <1>1 DEF StartVless, tun, net
  <1>2. CASE Build
    BY <1>2 DEF Build, tun, net, hist
  <1>3. CASE FailStart
    BY <1>3 DEF FailStart, tun, net, hist
  <1>4. CASE Launch
    BY <1>4 DEF Launch, UndoInv, hist
  <1>5. CASE WaitForAdapter
    BY <1>5 DEF WaitForAdapter, Fail, tun, net, hist
  <1>6. CASE ResolveHost
    BY <1>6 DEF ResolveHost, net, hist
  <1>7. CASE ExcludeServer
    BY <1>7 DEF ExcludeServer
  <1>8. CASE SetAddress
    BY <1>8 DEF SetAddress, Fail, tun, hist
  <1>9. CASE AddDefaultRoute
    BY <1>9 DEF AddDefaultRoute, Fail, tun
  <1>10. CASE AddBypass
    BY <1>10 DEF AddBypass
  <1>11. CASE SetDns
    BY <1>11 DEF SetDns, Fail, net, hist
  <1>12. CASE Stop
    BY <1>12 DEF Stop, tun, net, hist
  <1>13. CASE CleanupTunNetworking
    BY <1>13 DEF CleanupTunNetworking
  <1>14. CASE Terminate
    BY <1>14 DEF Terminate
  <1>15. CASE AdapterComes
    BY <1>15 DEF AdapterComes, tun, hist
  <1>16. CASE AdapterGoes
    BY <1>16 DEF AdapterGoes, UndoInv, tun, hist
  <1>17. CASE UNCHANGED vars
    BY <1>17 DEF vars, tun, net, hist
  <1> QED
    BY <1>1, <1>2, <1>3, <1>4, <1>5, <1>6, <1>7, <1>8, <1>9, <1>10, <1>11, <1>12, <1>13,
       <1>14, <1>15, <1>16, <1>17 DEF TunNext

\* A session that BuildEffectiveConfig made one without a tunnel finds the routes as they
\* were at its start until its process ends, with no route command, DNS setting or adapter
\* to undo: Stop's CleanupTunNetworking does nothing to it.
THEOREM ProxyLeavesRoutesHolds == TunSpec => []ProxyLeavesRoutes
  <1>1. ProxyInv => ProxyLeavesRoutes
    BY DEF ProxyInv
  <1> QED BY UndoInit, UndoNext, ProxyInit, ProxyNext, <1>1, PTL DEF TunSpec

-----------------------------------------------------------------------------
(* The edits of the configuration.                                         *)

\* The relation behind "the least of a set of naturals", and behind every induction here.
Below == {pair \in Nat \X Nat : pair[1] < pair[2]}

LEMMA BelowWellFounded == IsWellFoundedOn(Below, Nat)
  BY NatLessThanWellFounded, Zenon DEF OpToRel, Below

LEMMA LeastNat ==
  ASSUME NEW S, S \subseteq Nat, S # {}
  PROVE  Min(S) \in S /\ \A y \in S : Min(S) <= y
  <1>1. PICK x \in S : \A y \in S : <<y, x>> \notin Below
    BY BelowWellFounded, WFMin, Zenon
  <1>2. \A y \in S : x <= y
    <2> SUFFICES ASSUME NEW y \in S PROVE x <= y
      OBVIOUS
    <2>1. x \in Nat /\ y \in Nat /\ <<y, x>> \notin Below
      BY <1>1
    <2> QED BY <2>1 DEF Below
  <1>3. \E m \in S : \A y \in S : m <= y
    BY <1>2
  <1> QED BY <1>3 DEF Min

LEMMA FindIs ==
  ASSUME NEW T, NEW c \in Seq(T), NEW word, NEW from \in Nat, Find(c, word, from) # 0
  PROVE  /\ from # 0
         /\ Find(c, word, from) \in from .. Len(c)
         /\ c[Find(c, word, from)] = word
  <1> DEFINE I == {i \in from .. Len(c) : c[i] = word}
  <1>1. from # 0 /\ I # {} /\ Find(c, word, from) = Min(I)
    BY DEF Find, SelectInSubSeq
  <1>2. Min(I) \in I
    <2>1. I \subseteq Nat
      OBVIOUS
    <2> HIDE DEF I
    <2> QED BY <1>1, <2>1, LeastNat
  <1> QED BY <1>1, <1>2

LEMMA FindBracketIs ==
  ASSUME NEW T, NEW c \in Seq(T), NEW bracket, NEW from \in Nat, FindBracket(c, bracket, from) # 0
  PROVE  /\ from # 0
         /\ FindBracket(c, bracket, from) \in from .. Len(c)
         /\ Seen(c[FindBracket(c, bracket, from)]) = bracket
  <1> DEFINE I == {i \in from .. Len(c) : Seen(c[i]) = bracket}
  <1>1. from # 0 /\ I # {} /\ FindBracket(c, bracket, from) = Min(I)
    BY DEF FindBracket, SelectInSubSeq
  <1>2. Min(I) \in I
    <2>1. I \subseteq Nat
      OBVIOUS
    <2> HIDE DEF I
    <2> QED BY <1>1, <2>1, LeastNat
  <1> QED BY <1>1, <1>2

LEMMA FindNat ==
  ASSUME NEW T, NEW c \in Seq(T), NEW word, NEW from \in Nat
  PROVE  Find(c, word, from) \in Nat /\ FindBracket(c, word, from) \in Nat
  <1>1. Find(c, word, from) \in Nat
    BY FindIs
  <1>2. FindBracket(c, word, from) \in Nat
    BY FindBracketIs
  <1> QED BY <1>1, <1>2

\* How often b comes up in s from start to i.
Tally(s, start, b, i) == Cardinality({j \in start .. i : s[j] = b})

LEMMA TallyStep ==
  ASSUME NEW s, NEW start \in Nat, NEW b, NEW i \in Nat, start <= i
  PROVE  /\ Tally(s, start, b, i) \in Nat
         /\ Tally(s, start, b, i) = (IF i = start THEN 0 ELSE Tally(s, start, b, i - 1))
                                    + (IF s[i] = b THEN 1 ELSE 0)
  <1> DEFINE P(k) == {j \in start .. k : s[j] = b}
  <1>1. \A k \in Int : IsFiniteSet(P(k)) /\ Cardinality(P(k)) \in Nat
    <2> TAKE k \in Int
    <2>1. IsFiniteSet(start .. k)
      BY FS_Interval
    <2>2. P(k) \in SUBSET (start .. k)
      OBVIOUS
    <2>3. IsFiniteSet(P(k))
      BY <2>1, <2>2, FS_Subset
    <2> QED BY <2>3, FS_CardinalityType
  <1>2. i \notin P(i - 1)
    OBVIOUS
  <1>3. P(i) = IF s[i] = b THEN P(i - 1) \cup {i} ELSE P(i - 1)
    OBVIOUS
  <1>4. Cardinality(P(i)) = Cardinality(P(i - 1)) + (IF s[i] = b THEN 1 ELSE 0)
    <2>1. IsFiniteSet(P(i - 1)) /\ Cardinality(P(i - 1)) \in Nat
      BY <1>1
    <2>2. Cardinality(P(i - 1) \cup {i}) = Cardinality(P(i - 1)) + 1
      BY <2>1, <1>2, FS_AddElement
    <2> HIDE DEF P
    <2> QED BY <2>1, <2>2, <1>3
  <1>5. i = start => Cardinality(P(i - 1)) = 0
    <2> SUFFICES ASSUME i = start PROVE P(i - 1) = {}
      BY FS_EmptySet
    <2> QED OBVIOUS
  <1>6. Cardinality(P(i)) \in Nat
    BY <1>1
  <1> HIDE DEF P
  <1> QED BY <1>4, <1>5, <1>6 DEF Tally, P

\* The depth that FindMatchingBracket and FindRootObjectEnd count up and down, from the
\* place they start at.
IsDepth(depth, s, start, open, close) ==
  /\ depth \in [start - 1 .. Len(s) -> Int]
  /\ depth[start - 1] = 0
  /\ \A i \in start .. Len(s) :
       depth[i] = depth[i - 1] + (IF s[i] = open THEN 1 ELSE IF s[i] = close THEN -1 ELSE 0)

LEMMA DepthIsTallied ==
  ASSUME NEW T, NEW s \in Seq(T), NEW start \in 1 .. Len(s), NEW open, NEW close, open # close,
         NEW depth, IsDepth(depth, s, start, open, close), NEW i \in start .. Len(s)
  PROVE  depth[i] = Tally(s, start, open, i) - Tally(s, start, close, i)
  <1> DEFINE Good(k) == depth[k] = Tally(s, start, open, k) - Tally(s, start, close, k)
             Bad == {k \in start .. Len(s) : ~Good(k)}
  <1>1. Bad \subseteq Nat
    OBVIOUS
  <1>2. ASSUME Bad # {} PROVE FALSE
    <2>1. Min(Bad) \in Bad /\ \A k \in Bad : Min(Bad) <= k
      BY <1>1, <1>2, LeastNat
    <2>2. PICK m \in start .. Len(s) : ~Good(m) /\ \A k \in start .. m - 1 : Good(k)
      <3>1. Min(Bad) \in start .. Len(s) /\ ~Good(Min(Bad))
        BY <2>1
      <3>2. ASSUME NEW k \in start .. Min(Bad) - 1, ~Good(k) PROVE FALSE
        <4>1. k \in start .. Len(s) /\ k < Min(Bad)
          BY <3>1
        <4>2. k \in Bad
          BY <4>1, <3>2
        <4> HIDE DEF Good, Bad
        <4>3. Min(Bad) <= k
          BY <2>1, <4>2
        <4>4. Min(Bad) \in Int /\ k \in Int
          BY <3>1, <4>1
        <4> QED BY <4>1, <4>3, <4>4
      <3> HIDE DEF Good, Bad
      <3> QED BY <3>1, <3>2
    <2>3. m \in Nat /\ start \in Nat /\ start <= m
      OBVIOUS
    <2>4. /\ depth[m] = depth[m - 1] + (IF s[m] = open THEN 1 ELSE IF s[m] = close THEN -1 ELSE 0)
          /\ depth[start - 1] = 0
          /\ depth[m - 1] \in Int
      <3> HIDE DEF Good, Bad
      <3>1. m - 1 \in start - 1 .. Len(s)
        BY <2>3
      <3>2. depth[m - 1] \in Int
        BY <3>1 DEF IsDepth
      <3> QED BY <3>2 DEF IsDepth
    <2>5. \A b : /\ Tally(s, start, b, m) \in Nat
                 /\ Tally(s, start, b, m) = (IF m = start THEN 0 ELSE Tally(s, start, b, m - 1))
                                            + (IF s[m] = b THEN 1 ELSE 0)
      BY <2>3, TallyStep
    <2>6. CASE m = start
      BY <2>2, <2>4, <2>5, <2>6
    <2>7. CASE m # start
      <3>1. m - 1 \in start .. m - 1 /\ m - 1 \in Nat /\ start <= m - 1
        BY <2>3, <2>7
      <3>2. Good(m - 1)
        BY <2>2, <3>1
      <3>3. \A b : Tally(s, start, b, m - 1) \in Nat
        BY <3>1, TallyStep
      <3>4. /\ Tally(s, start, open, m) = Tally(s, start, open, m - 1) + (IF s[m] = open THEN 1 ELSE 0)
            /\ Tally(s, start, close, m) = Tally(s, start, close, m - 1)
                                           + (IF s[m] = close THEN 1 ELSE 0)
        BY <2>5, <2>7
      <3>5. /\ Tally(s, start, open, m - 1) \in Nat
            /\ Tally(s, start, close, m - 1) \in Nat
            /\ depth[m - 1] = Tally(s, start, open, m - 1) - Tally(s, start, close, m - 1)
        BY <3>2, <3>3
      <3>6. depth[m] = Tally(s, start, open, m) - Tally(s, start, close, m)
        <4>1. CASE s[m] = open
          BY <4>1, <3>4, <3>5, <2>4
        <4>2. CASE s[m] = close
          BY <4>2, <3>4, <3>5, <2>4
        <4>3. CASE s[m] # open /\ s[m] # close
          BY <4>3, <3>4, <3>5, <2>4
        <4> QED BY <4>1, <4>2, <4>3
      <3> QED BY <2>2, <3>6
    <2> QED BY <2>6, <2>7
  <1> QED BY <1>2

\* FindMatchingBracket and FindRootObjectEnd are loops that count a depth; the model counts
\* brackets instead, and finds the same place: the first closing bracket at depth zero, or
\* none if there is none.  From an opening bracket on, all before that place is inside.
THEOREM MatchingBracketIsTheLoop ==
  ASSUME NEW T, NEW s \in Seq(T), NEW start \in 1 .. Len(s), NEW open, NEW close, open # close,
         NEW depth, IsDepth(depth, s, start, open, close)
  PROVE  LET end == Closing(s, start, open, close)
             Here(i) == s[i] = close /\ depth[i] = 0
         IN /\ end = 0 => \A i \in start .. Len(s) : ~Here(i)
            /\ end # 0 => /\ end \in start .. Len(s) /\ Here(end)
                          /\ \A i \in start .. end - 1 : ~Here(i)
            /\ end # 0 /\ s[start] = open => \A i \in start .. end - 1 : depth[i] > 0
  <1> DEFINE end == Closing(s, start, open, close)
             Here(i) == s[i] = close /\ depth[i] = 0
             ends == {i \in start .. Len(s) : Here(i)}
  <1>1. /\ start \in Nat /\ start # 0 /\ Len(s) \in Nat
        /\ ends \subseteq Nat /\ ends \subseteq start .. Len(s)
    OBVIOUS
  <1>2. end = IF ends = {} THEN 0 ELSE Min(ends)
    <2>1. \A i \in start .. Len(s) :
            /\ depth[i] = Tally(s, start, open, i) - Tally(s, start, close, i)
            /\ Tally(s, start, open, i) \in Nat /\ Tally(s, start, close, i) \in Nat
      <3> TAKE i \in start .. Len(s)
      <3>1. i \in Nat /\ start <= i
        OBVIOUS
      <3> QED BY <1>1, <3>1, DepthIsTallied, TallyStep
    <2>2. {i \in start .. Len(s) : s[i] = close /\ Tally(s, start, open, i) = Tally(s, start, close, i)}
          = ends
      BY <2>1
    <2> HIDE DEF ends
    <2> QED BY <2>2, <1>1 DEF Closing, Tally
  <1>3. ends # {} => end \in ends /\ \A i \in ends : end <= i
    BY <1>1, <1>2, LeastNat
  <1>4. end = 0 => \A i \in start .. Len(s) : ~Here(i)
    BY <1>1, <1>2, <1>3
  <1>5. end # 0 => end \in start .. Len(s) /\ Here(end)
    BY <1>2, <1>3
  <1>6. ASSUME end # 0, NEW i \in start .. end - 1, Here(i) PROVE FALSE
    <2>1. end \in start .. Len(s)
      BY <1>5, <1>6
    <2>2. i \in start .. Len(s) /\ i < end
      BY <2>1, <1>1
    <2>3. i \in ends
      BY <2>2, <1>6
    <2> HIDE DEF ends, end
    <2> QED BY <2>1, <2>2, <2>3, <1>3, <1>1
  <1>7. ASSUME end # 0, s[start] = open PROVE \A i \in start .. end - 1 : depth[i] > 0
    <2> DEFINE Bad == {i \in start .. end - 1 : ~(depth[i] > 0)}
    <2>1. end \in start .. Len(s)
      BY <1>5, <1>7
    <2> HIDE DEF end, Here, ends
    <2>2. Bad \subseteq Nat
      BY <1>1
    <2>3. ASSUME Bad # {} PROVE FALSE
      <3>1. Min(Bad) \in Bad /\ \A k \in Bad : Min(Bad) <= k
        BY <2>2, <2>3, LeastNat
      <3>2. PICK m \in start .. end - 1 :
              ~(depth[m] > 0) /\ \A k \in start .. end - 1 : ~(depth[k] > 0) => m <= k
        BY <3>1
      <3>3. m \in start .. Len(s) /\ start \in start .. Len(s) /\ m \in Nat
        BY <2>1, <1>1
      <3>4. /\ depth[m] = depth[m - 1] + (IF s[m] = open THEN 1 ELSE IF s[m] = close THEN -1 ELSE 0)
            /\ depth[start] = depth[start - 1] + 1
            /\ depth[start - 1] = 0 /\ depth[m - 1] \in Int
        <4>1. /\ m \in start .. Len(s) /\ start \in start .. Len(s)
              /\ m - 1 \in start - 1 .. Len(s)
          BY <3>3, <1>1
        <4>2. /\ depth \in [start - 1 .. Len(s) -> Int] /\ depth[start - 1] = 0
              /\ \A i \in start .. Len(s) :
                   depth[i] = depth[i - 1]
                              + (IF s[i] = open THEN 1 ELSE IF s[i] = close THEN -1 ELSE 0)
          BY DEF IsDepth
        <4>3. depth[m - 1] \in Int
          BY <4>1, <4>2
        <4>4. depth[start] = depth[start - 1] + 1
          BY <4>1, <4>2, <1>7
        <4> QED BY <4>1, <4>2, <4>3, <4>4
      <3>5. m # start
        BY <3>2, <3>4
      <3>6. m - 1 \in start .. end - 1
        BY <3>3, <3>5, <1>1, <2>1
      <3>7. depth[m - 1] > 0
        <4>1. ~(m <= m - 1)
          BY <3>3
        <4> QED BY <3>2, <3>6, <4>1
      <3>8. s[m] = close /\ depth[m] = 0
        BY <3>2, <3>4, <3>7
      <3> QED BY <3>2, <3>8, <1>6, <1>7 DEF Here
    <2> QED BY <2>3
  <1> QED BY <1>4, <1>5, <1>6, <1>7

LEMMA ClosingIs ==
  ASSUME NEW T, NEW s \in Seq(T), NEW start \in Nat, NEW open, NEW close,
         Closing(s, start, open, close) # 0
  PROVE  start # 0 /\ Closing(s, start, open, close) \in start .. Len(s)
  <1> DEFINE ends == {i \in start .. Len(s) : s[i] = close
                        /\ Tally(s, start, open, i) = Tally(s, start, close, i)}
  <1>1. start # 0 /\ ends # {} /\ Closing(s, start, open, close) = Min(ends)
    BY DEF Closing, Tally
  <1>2. Min(ends) \in ends
    <2>1. ends \subseteq Nat
      OBVIOUS
    <2> HIDE DEF ends
    <2> QED BY <1>1, <2>1, LeastNat
  <1> QED BY <1>1, <1>2

LEMMA MatchingIs ==
  ASSUME NEW T, NEW c \in Seq(T), NEW start \in Nat, NEW open, NEW close,
         FindMatchingBracket(c, start, open, close) # 0
  PROVE  start # 0 /\ FindMatchingBracket(c, start, open, close) \in start .. Len(c)
  <1> DEFINE s == [i \in DOMAIN c |-> Seen(c[i])]
  <1>1. s \in Seq({Seen(x) : x \in T}) /\ Len(s) = Len(c)
    <2>1. Len(c) \in Nat /\ DOMAIN c = 1 .. Len(c) /\ \A i \in 1 .. Len(c) : c[i] \in T
      OBVIOUS
    <2>2. s = [i \in 1 .. Len(c) |-> Seen(c[i])]
      BY <2>1
    <2>3. \A i \in 1 .. Len(c) : Seen(c[i]) \in {Seen(x) : x \in T}
      BY <2>1
    <2> QED BY <2>1, <2>2, <2>3, IsASeq
  <1> HIDE DEF s
  <1> QED BY <1>1, ClosingIs DEF FindMatchingBracket, s

-----------------------------------------------------------------------------
\* The tokens of c that are not gone stand in t, in the same order.
Kept(c, t, gone) ==
  \E at \in [DOMAIN c \ gone -> DOMAIN t] :
    \A i \in DOMAIN c \ gone :
      /\ t[at[i]] = c[i]
      /\ \A j \in DOMAIN c \ gone : i < j => at[i] < at[j]

\* t is a, then b, then d.
Joined(t, a, b, d) ==
  /\ DOMAIN t = 1 .. Len(a) + Len(b) + Len(d)
  /\ \A k \in 1 .. Len(a) : t[k] = a[k]
  /\ \A k \in 1 .. Len(d) : t[Len(a) + Len(b) + k] = d[k]

LEMMA ThreeParts ==
  ASSUME NEW S, NEW a \in Seq(S), NEW b \in Seq(S), NEW d \in Seq(S)
  PROVE  a \o b \o d \in Seq(S) /\ Joined(a \o b \o d, a, b, d)
  <1>1. Len(a) \in Nat /\ Len(b) \in Nat /\ Len(d) \in Nat
    OBVIOUS
  <1>2. /\ a \o b \in Seq(S) /\ Len(a \o b) = Len(a) + Len(b)
        /\ \A k \in 1 .. Len(a) + Len(b) : (a \o b)[k] = IF k <= Len(a) THEN a[k] ELSE b[k - Len(a)]
    BY ConcatProperties
  <1> DEFINE h == a \o b
  <1> HIDE DEF h
  <1>3. h \in Seq(S) /\ Len(h) = Len(a) + Len(b) /\ \A k \in 1 .. Len(a) : h[k] = a[k]
    BY <1>1, <1>2 DEF h
  <1>4. /\ h \o d \in Seq(S) /\ Len(h \o d) = Len(h) + Len(d)
        /\ \A k \in 1 .. Len(h) + Len(d) : (h \o d)[k] = IF k <= Len(h) THEN h[k] ELSE d[k - Len(h)]
    <2>1. h \in Seq(S)
      BY <1>3
    <2> QED BY <2>1, ConcatProperties, Zenon
  <1> DEFINE t == h \o d
  <1> HIDE DEF t
  <1>5. /\ t \in Seq(S) /\ Len(t) = Len(a) + Len(b) + Len(d)
        /\ \A k \in 1 .. Len(h) + Len(d) : t[k] = IF k <= Len(h) THEN h[k] ELSE d[k - Len(h)]
    BY <1>3, <1>4 DEF t
  <1>6. DOMAIN t = 1 .. Len(a) + Len(b) + Len(d)
    BY <1>5
  <1>7. \A k \in 1 .. Len(a) : t[k] = a[k]
    BY <1>1, <1>3, <1>5
  <1>8. ASSUME NEW k \in 1 .. Len(d) PROVE t[Len(a) + Len(b) + k] = d[k]
    <2>1. /\ Len(a) + Len(b) + k \in 1 .. Len(h) + Len(d) /\ ~(Len(a) + Len(b) + k <= Len(h))
          /\ Len(a) + Len(b) + k - Len(h) = k
      BY <1>1, <1>3
    <2> QED BY <2>1, <1>5
  <1>9. t \in Seq(S) /\ Joined(t, a, b, d)
    BY <1>5, <1>6, <1>7, <1>8 DEF Joined
  <1> QED BY <1>9 DEF t, h

LEMMA Part ==
  ASSUME NEW S, NEW c \in Seq(S), NEW m \in 1 .. Len(c) + 1, NEW n \in m - 1 .. Len(c)
  PROVE  /\ SubSeq(c, m, n) \in Seq(S)
         /\ Len(SubSeq(c, m, n)) = n - m + 1
         /\ \A i \in 1 .. n - m + 1 : SubSeq(c, m, n)[i] = c[m + i - 1]
  <1>1. m \in Int /\ n \in Int /\ \A i \in m .. n : c[i] \in S
    OBVIOUS
  <1>2. /\ SubSeq(c, m, n) \in Seq(S)
        /\ Len(SubSeq(c, m, n)) = IF m <= n THEN n - m + 1 ELSE 0
        /\ \A i \in 1 .. n - m + 1 : SubSeq(c, m, n)[i] = c[m + i - 1]
    BY <1>1, SubSeqProperties
  <1>3. (IF m <= n THEN n - m + 1 ELSE 0) = n - m + 1
    OBVIOUS
  <1> QED BY <1>2, <1>3

LEMMA ReplaceKeeps ==
  ASSUME NEW T, NEW c \in Seq(T), NEW s \in Seq(T), NEW from \in 1 .. Len(c),
         NEW to \in from - 1 .. Len(c)
  PROVE  LET t == SubSeq(c, 1, from - 1) \o s \o SubSeq(c, to + 1, Len(c))
         IN t \in Seq(T) /\ Kept(c, t, from .. to)
  <1> DEFINE front == SubSeq(c, 1, from - 1)
             back  == SubSeq(c, to + 1, Len(c))
             t     == front \o s \o back
  <1>1. /\ Len(c) \in Nat /\ Len(s) \in Nat /\ from \in Nat /\ to \in Nat
        /\ DOMAIN c = 1 .. Len(c)
    OBVIOUS
  <1>2. /\ front \in Seq(T) /\ Len(front) = from - 1
        /\ \A i \in 1 .. from - 1 : front[i] = c[i]
    <2>1. 1 \in 1 .. Len(c) + 1 /\ from - 1 \in 1 - 1 .. Len(c)
      BY <1>1
    <2>2. /\ front \in Seq(T) /\ Len(front) = from - 1 - 1 + 1
          /\ \A i \in 1 .. from - 1 - 1 + 1 : front[i] = c[1 + i - 1]
      BY <2>1, Part
    <2> HIDE DEF front
    <2> QED BY <2>2, <1>1
  <1>3. /\ back \in Seq(T) /\ Len(back) = Len(c) - to
        /\ \A i \in 1 .. Len(c) - to : back[i] = c[to + i]
    <2>1. to + 1 \in 1 .. Len(c) + 1
      BY <1>1
    <2>2. Len(c) \in to + 1 - 1 .. Len(c)
      BY <1>1
    <2>3. /\ back \in Seq(T) /\ Len(back) = Len(c) - (to + 1) + 1
          /\ \A i \in 1 .. Len(c) - (to + 1) + 1 : back[i] = c[to + 1 + i - 1]
      BY <2>1, <2>2, Part
    <2> HIDE DEF back
    <2> QED BY <2>3, <1>1
  <1> HIDE DEF front, back
  <1>4. /\ t \in Seq(T)
        /\ DOMAIN t = 1 .. from - 1 + Len(s) + (Len(c) - to)
        /\ \A i \in 1 .. from - 1 : t[i] = c[i]
        /\ \A i \in to + 1 .. Len(c) : t[from - 1 + Len(s) + (i - to)] = c[i]
    <2>1. /\ t \in Seq(T)
          /\ DOMAIN t = 1 .. Len(front) + Len(s) + Len(back)
          /\ \A k \in 1 .. Len(front) : t[k] = front[k]
          /\ \A k \in 1 .. Len(back) : t[Len(front) + Len(s) + k] = back[k]
      <3>1. front \in Seq(T) /\ back \in Seq(T)
        BY <1>2, <1>3
      <3>2. t \in Seq(T) /\ Joined(t, front, s, back)
        BY <3>1, ThreeParts
      <3> HIDE DEF t
      <3> QED BY <3>2 DEF Joined
    <2> HIDE DEF t
    <2>2. \A i \in 1 .. from - 1 : t[i] = c[i]
      BY <2>1, <1>2
    <2>3. ASSUME NEW i \in to + 1 .. Len(c)
          PROVE  t[from - 1 + Len(s) + (i - to)] = c[i]
      <3>1. i - to \in 1 .. Len(c) - to /\ to + (i - to) = i
        BY <1>1
      <3> QED BY <3>1, <2>1, <1>2, <1>3
    <2> QED BY <2>1, <2>2, <2>3, <1>2, <1>3
  <1> HIDE DEF t
  <1>5. Kept(c, t, from .. to)
    <2> DEFINE D  == DOMAIN c \ (from .. to)
               at == [i \in D |-> IF i < from THEN i ELSE from - 1 + Len(s) + (i - to)]
    <2>1. at \in [D -> DOMAIN t]
      BY <1>1, <1>4
    <2>2. \A i \in D : t[at[i]] = c[i]
      BY <1>1, <1>4
    <2>3. \A i, j \in D : i < j => at[i] < at[j]
      BY <1>1
    <2> HIDE DEF at
    <2> QED BY <2>1, <2>2, <2>3 DEF Kept
  <1> QED BY <1>4, <1>5 DEF t, front, back

LEMMA InsertKeeps ==
  ASSUME NEW T, NEW c \in Seq(T), NEW s \in Seq(T), NEW i \in 1 .. Len(c)
  PROVE  InsertBefore(c, i, s) \in Seq(T) /\ Kept(c, InsertBefore(c, i, s), {})
  <1>1. i \in Nat /\ Len(c) \in Nat /\ i - 1 \in i - 1 .. Len(c) /\ i - 1 + 1 = i
        /\ i .. i - 1 = {}
    OBVIOUS
  <1> QED BY <1>1, ReplaceKeeps DEF InsertBefore

LEMMA SameKeeps ==
  ASSUME NEW T, NEW c \in Seq(T)
  PROVE  Kept(c, c, {})
  <1> DEFINE at == [i \in DOMAIN c |-> i]
  <1>1. at \in [DOMAIN c \ {} -> DOMAIN c]
    OBVIOUS
  <1>2. \A i \in DOMAIN c \ {} : c[at[i]] = c[i] /\ \A j \in DOMAIN c \ {} : i < j => at[i] < at[j]
    OBVIOUS
  <1> QED BY <1>1, <1>2 DEF Kept

-----------------------------------------------------------------------------
\* The words the edits write.
Words ==
  Punctuation \cup {"tag", TunTag, "protocol", "tun", "settings", "name", "xray-wintun", "dns",
                    "servers", "8.8.8.8", "1.1.1.1", "inbounds", "inboundTag", "outboundTag",
                    "routing", "domainStrategy", "UseIp", "rules"}

LEMMA Tuple1 ==
  ASSUME NEW T,
         NEW a1 \in T
  PROVE  <<a1>> \in Seq(T)
  OBVIOUS

LEMMA Tuple2 ==
  ASSUME NEW T,
         NEW a1 \in T, NEW a2 \in T
  PROVE  <<a1, a2>> \in Seq(T)
  OBVIOUS

LEMMA Tuple3 ==
  ASSUME NEW T,
         NEW a1 \in T, NEW a2 \in T, NEW a3 \in T
  PROVE  <<a1, a2, a3>> \in Seq(T)
  OBVIOUS

LEMMA Tuple7 ==
  ASSUME NEW T,
         NEW a1 \in T, NEW a2 \in T, NEW a3 \in T, NEW a4 \in T, NEW a5 \in T, NEW a6 \in
         T, NEW a7 \in T
  PROVE  <<a1, a2, a3, a4, a5, a6, a7>> \in Seq(T)
  OBVIOUS

LEMMA Tuple11 ==
  ASSUME NEW T,
         NEW a1 \in T, NEW a2 \in T, NEW a3 \in T, NEW a4 \in T, NEW a5 \in T, NEW a6 \in
         T, NEW a7 \in T, NEW a8 \in T, NEW a9 \in T, NEW a10 \in T, NEW a11 \in T
  PROVE  <<a1, a2, a3, a4, a5, a6, a7, a8, a9, a10, a11>> \in Seq(T)
  OBVIOUS

LEMMA Tuple15 ==
  ASSUME NEW T,
         NEW a1 \in T, NEW a2 \in T, NEW a3 \in T, NEW a4 \in T, NEW a5 \in T, NEW a6 \in
         T, NEW a7 \in T, NEW a8 \in T, NEW a9 \in T, NEW a10 \in T, NEW a11 \in T, NEW
         a12 \in T, NEW a13 \in T, NEW a14 \in T, NEW a15 \in T
  PROVE  <<a1, a2, a3, a4, a5, a6, a7, a8, a9, a10, a11, a12, a13, a14, a15>> \in Seq(T)
  OBVIOUS

LEMMA WordsAreTokens ==
  ASSUME NEW T, Words \subseteq T
  PROVE  /\ "{" \in T /\ "}" \in T /\ "[" \in T /\ "]" \in T /\ ":" \in T /\ "," \in T
         /\ "tag" \in T /\ TunTag \in T /\ "protocol" \in T /\ "tun" \in T /\ "settings" \in T
         /\ "name" \in T /\ "xray-wintun" \in T /\ "dns" \in T /\ "servers" \in T
         /\ "8.8.8.8" \in T /\ "1.1.1.1" \in T /\ "inbounds" \in T /\ "inboundTag" \in T
         /\ "outboundTag" \in T /\ "routing" \in T /\ "domainStrategy" \in T
         /\ "UseIp" \in T /\ "rules" \in T
  BY Zenon DEF Words, Punctuation

LEMMA ConcatIsText ==
  ASSUME NEW T, NEW a \in Seq(T), NEW b \in Seq(T)
  PROVE  a \o b \in Seq(T)
  OBVIOUS

LEMMA InArrayIsText ==
  ASSUME NEW T, Words \subseteq T, NEW item \in Seq(T)
  PROVE  InArray(item) \in Seq(T)
  <1>1. <<"[">> \in Seq(T) /\ <<"]">> \in Seq(T)
    BY WordsAreTokens, Tuple1, Zenon
  <1>2. <<"[">> \o item \in Seq(T)
    BY <1>1, ConcatIsText, Zenon
  <1> QED BY <1>1, <1>2, ConcatIsText, Zenon DEF InArray

LEMMA SeparatedIsText ==
  ASSUME NEW T, NEW separator \in T, NEW words \in Seq(T)
  PROVE  [i \in 1 .. 2 * Len(words) - 1 |->
            IF i % 2 = 1 THEN words[(i + 1) \div 2] ELSE separator] \in Seq(T)
  <1> DEFINE n == 2 * Len(words) - 1
             g(i) == IF i % 2 = 1 THEN words[(i + 1) \div 2] ELSE separator
  <1>1. Len(words) \in Nat /\ \A k \in 1 .. Len(words) : words[k] \in T
    OBVIOUS
  <1>2. \A i \in 1 .. n : g(i) \in T
    <2> TAKE i \in 1 .. n
    <2>1. i % 2 = 1 => (i + 1) \div 2 \in 1 .. Len(words)
      BY <1>1
    <2> QED BY <1>1, <2>1
  <1>3. CASE Len(words) = 0
    <2>1. 1 .. n = {}
      BY <1>3
    <2> QED BY <2>1
  <1>4. CASE Len(words) # 0
    <2>1. n \in Nat
      BY <1>1, <1>4
    <2> HIDE DEF g, n
    <2>2. [i \in 1 .. n |-> g(i)] \in Seq(T)
      BY <2>1, <1>2, IsASeq
    <2> QED BY <2>2 DEF g, n
  <1> QED BY <1>3, <1>4

LEMMA StringsIsText ==
  ASSUME NEW T, Words \subseteq T, NEW words \in Seq(T)
  PROVE  Strings(words) \in Seq(T)
  <1>1. [i \in 1 .. 2 * Len(words) - 1 |-> IF i % 2 = 1 THEN words[(i + 1) \div 2] ELSE ","]
          \in Seq(T)
    BY WordsAreTokens, SeparatedIsText, Zenon
  <1> QED BY <1>1, InArrayIsText, Zenon DEF Strings

LEMMA WrittenIsText ==
  ASSUME NEW T, Words \subseteq T, NEW servers \in Seq(T), NEW tag \in T
  PROVE  TunInbound(servers) \in Seq(T) /\ DnsObject(servers) \in Seq(T) /\ Rule(tag) \in Seq(T)
  <1>1. TunInbound(servers) \in Seq(T)
    <2> DEFINE front == <<"{", "tag", ":", TunTag, ",", "protocol", ":", "tun", ",", "settings",
                          ":", "{", "name", ":", "xray-wintun">>
               middle == IF servers = <<>> THEN <<>>
                         ELSE <<",", "dns", ":">> \o Strings(servers)
    <2>1. front \in Seq(T)
      BY WordsAreTokens, Tuple15, Zenon
    <2>2. <<",", "dns", ":">> \in Seq(T)
      BY WordsAreTokens, Tuple3, Zenon
    <2>3. middle \in Seq(T)
      <3>1. <<>> \in Seq(T)
        OBVIOUS
      <3>2. <<",", "dns", ":">> \o Strings(servers) \in Seq(T)
        BY <2>2, StringsIsText, ConcatIsText, Zenon
      <3> QED BY <3>1, <3>2, Zenon
    <2>4. <<"}", "}">> \in Seq(T)
      BY WordsAreTokens, Tuple2, Zenon
    <2> HIDE DEF front, middle
    <2>5. front \o middle \in Seq(T)
      BY <2>1, <2>3, ConcatIsText, Zenon
    <2>6. front \o middle \o <<"}", "}">> \in Seq(T)
      BY <2>4, <2>5, ConcatIsText, Zenon
    <2> QED BY <2>6, Zenon DEF TunInbound, front, middle
  <1>2. DnsObject(servers) \in Seq(T)
    <2> DEFINE words == IF servers = <<>> THEN <<"8.8.8.8", "1.1.1.1">> ELSE servers
    <2>1. <<"{", "servers", ":">> \in Seq(T)
      BY WordsAreTokens, Tuple3, Zenon
    <2>2. words \in Seq(T)
      <3>1. <<"8.8.8.8", "1.1.1.1">> \in Seq(T)
        BY WordsAreTokens, Tuple2, Zenon
      <3> QED BY <3>1, Zenon
    <2>3. <<"}">> \in Seq(T)
      BY WordsAreTokens, Tuple1, Zenon
    <2> HIDE DEF words
    <2>4. Strings(words) \in Seq(T)
      BY <2>2, StringsIsText, Zenon
    <2>5. <<"{", "servers", ":">> \o Strings(words) \in Seq(T)
      BY <2>1, <2>4, ConcatIsText, Zenon
    <2>6. <<"{", "servers", ":">> \o Strings(words) \o <<"}">> \in Seq(T)
      BY <2>3, <2>5, ConcatIsText, Zenon
    <2> QED BY <2>6, Zenon DEF DnsObject, words
  <1>3. Rule(tag) \in Seq(T)
    BY WordsAreTokens, Tuple11, Zenon DEF Rule
  <1> QED BY <1>1, <1>2, <1>3, Zenon

-----------------------------------------------------------------------------
\* An insertion that succeeds puts what it inserts before a token of the text.
LEMMA AppendToRootKeeps ==
  ASSUME NEW T, Words \subseteq T, NEW c \in Seq(T), NEW member \in Seq(T),
         AppendToRoot(c, member) # <<>>
  PROVE  AppendToRoot(c, member) \in Seq(T) /\ Kept(c, AppendToRoot(c, member), {})
  <1> DEFINE end == FindRootObjectEnd(c)
             comma == IF end > 1 /\ c[end - 1] # "{" THEN <<",">> ELSE <<>>
  <1>1. end # 0 /\ AppendToRoot(c, member) = InsertBefore(c, end, comma \o member)
    BY Zenon DEF AppendToRoot
  <1>2. end \in 1 .. Len(c)
    <2>1. Closing(c, 1, "{", "}") # 0 /\ end = Closing(c, 1, "{", "}")
      BY <1>1, Zenon DEF FindRootObjectEnd
    <2>2. 1 \in Nat
      OBVIOUS
    <2> HIDE DEF end, comma
    <2>3. Closing(c, 1, "{", "}") \in 1 .. Len(c)
      BY <2>1, <2>2, ClosingIs, Zenon
    <2> QED BY <2>1, <2>3, Zenon
  <1>3. comma \o member \in Seq(T)
    <2>1. <<",">> \in Seq(T)
      BY WordsAreTokens, Tuple1, Zenon
    <2>2. <<>> \in Seq(T)
      OBVIOUS
    <2>3. comma \in Seq(T)
      BY <2>1, <2>2, Zenon
    <2> QED BY <2>3, ConcatIsText, Zenon
  <1> HIDE DEF end, comma
  <1> QED BY <1>1, <1>2, <1>3, InsertKeeps, Zenon

LEMMA AppendInsideKeeps ==
  ASSUME NEW T, Words \subseteq T, NEW c \in Seq(T), NEW from \in Nat, NEW open, NEW close,
         NEW item \in Seq(T), AppendInside(c, from, open, close, item) # <<>>
  PROVE  /\ AppendInside(c, from, open, close, item) \in Seq(T)
         /\ Kept(c, AppendInside(c, from, open, close, item), {})
  <1> DEFINE start == FindBracket(c, open, from)
             end   == FindMatchingBracket(c, start, open, close)
             comma == IF end = start + 1 THEN <<>> ELSE <<",">>
  <1>1. end # 0 /\ AppendInside(c, from, open, close, item) = InsertBefore(c, end, comma \o item)
    BY Zenon DEF AppendInside
  <1>2. start \in Nat
    BY FindNat
  <1>3. start # 0 /\ end \in start .. Len(c)
    BY <1>1, <1>2, MatchingIs, Zenon
  <1> HIDE DEF start
  <1>4. end \in 1 .. Len(c)
    <2> HIDE DEF end
    <2> QED BY <1>2, <1>3
  <1>5. comma \o item \in Seq(T)
    <2>1. <<",">> \in Seq(T)
      BY WordsAreTokens, Tuple1, Zenon
    <2>2. <<>> \in Seq(T)
      OBVIOUS
    <2>3. comma \in Seq(T)
      BY <2>1, <2>2, Zenon
    <2> QED BY <2>3, ConcatIsText, Zenon
  <1> HIDE DEF end, comma
  <1> QED BY <1>1, <1>4, <1>5, InsertKeeps, Zenon

LEMMA InsertTunInboundKeeps ==
  ASSUME NEW T, Words \subseteq T, NEW c \in Seq(T), NEW servers \in Seq(T),
         InsertTunInbound(c, servers) # <<>>
  PROVE  InsertTunInbound(c, servers) \in Seq(T) /\ Kept(c, InsertTunInbound(c, servers), {})
  <1> DEFINE inbounds == Find(c, "inbounds", 1)
             member   == <<"inbounds", ":">> \o InArray(TunInbound(servers))
  <1>1. TunInbound(servers) \in Seq(T)
    BY WordsAreTokens, WrittenIsText, Zenon
  <1>2. member \in Seq(T)
    <2>1. <<"inbounds", ":">> \in Seq(T)
      BY WordsAreTokens, Tuple2, Zenon
    <2> QED BY <1>1, <2>1, InArrayIsText, ConcatIsText, Zenon
  <1>3. inbounds \in Nat
    BY FindNat
  <1> HIDE DEF inbounds, member
  <1>4. CASE HasTunInbound(c)
    BY <1>4, SameKeeps, Zenon DEF InsertTunInbound
  <1>5. CASE ~HasTunInbound(c) /\ inbounds = 0
    <2>1. InsertTunInbound(c, servers) = AppendToRoot(c, member)
      BY <1>5, Zenon DEF InsertTunInbound, inbounds, member
    <2> QED BY <1>2, <2>1, AppendToRootKeeps, Zenon
  <1>6. CASE ~HasTunInbound(c) /\ inbounds # 0
    <2>1. InsertTunInbound(c, servers) = AppendInside(c, inbounds, "[", "]", TunInbound(servers))
      BY <1>6, Zenon DEF InsertTunInbound, inbounds
    <2> QED BY <1>1, <1>3, <2>1, AppendInsideKeeps, Zenon
  <1> QED BY <1>4, <1>5, <1>6, Zenon

\* What InjectDnsServers replaces: from the first "dns" to the brace that closes what the
\* next brace opens.
DnsSection(c) ==
  LET key == Find(c, "dns", 1)
  IN IF key = 0 THEN {}
     ELSE key .. FindMatchingBracket(c, FindBracket(c, "{", key), "{", "}")

LEMMA InjectDnsServersKeeps ==
  ASSUME NEW T, Words \subseteq T, NEW c \in Seq(T), NEW servers \in Seq(T),
         InjectDnsServers(c, servers) # <<>>
  PROVE  /\ InjectDnsServers(c, servers) \in Seq(T)
         /\ Kept(c, InjectDnsServers(c, servers), DnsSection(c))
  <1> DEFINE member == <<"dns", ":">> \o DnsObject(servers)
             key    == Find(c, "dns", 1)
             start  == FindBracket(c, "{", key)
             end    == FindMatchingBracket(c, start, "{", "}")
  <1>1. member \in Seq(T)
    <2>1. <<"dns", ":">> \in Seq(T)
      BY WordsAreTokens, Tuple2, Zenon
    <2> QED BY <2>1, WordsAreTokens, WrittenIsText, ConcatIsText, Zenon
  <1>2. CASE key = 0
    <2>1. InjectDnsServers(c, servers) = AppendToRoot(c, member) /\ DnsSection(c) = {}
      BY <1>2, Zenon DEF InjectDnsServers, DnsSection
    <2> HIDE DEF member
    <2> QED BY <1>1, <2>1, AppendToRootKeeps, Zenon
  <1>3. CASE key # 0
    <2>1. /\ end # 0 /\ DnsSection(c) = key .. end
          /\ InjectDnsServers(c, servers) = SubSeq(c, 1, key - 1) \o member \o SubSeq(c, end + 1, Len(c))
      BY <1>3, Zenon DEF InjectDnsServers, DnsSection
    <2>2. key \in 1 .. Len(c)
      <3>1. 1 \in Nat
        OBVIOUS
      <3> QED BY <1>3, <3>1, FindIs, Zenon
    <2> HIDE DEF member, key
    <2>3. key \in Nat
      BY <2>2
    <2>4. start \in Nat
      BY <2>3, FindNat, Zenon
    <2>5. start # 0 /\ end \in start .. Len(c)
      BY <2>1, <2>4, MatchingIs, Zenon
    <2>6. start \in key .. Len(c)
      BY <2>3, <2>5, FindBracketIs, Zenon
    <2> HIDE DEF start
    <2>7. end \in key - 1 .. Len(c)
      <3> HIDE DEF end
      <3> QED BY <2>2, <2>5, <2>6
    <2> HIDE DEF end
    <2> DEFINE t == SubSeq(c, 1, key - 1) \o member \o SubSeq(c, end + 1, Len(c))
    <2>8. t \in Seq(T) /\ Kept(c, t, key .. end)
      BY <1>1, <2>2, <2>7, ReplaceKeeps
    <2> HIDE DEF t
    <2>9. InjectDnsServers(c, servers) = t /\ DnsSection(c) = key .. end
      BY <2>1, Zenon DEF t
    <2> QED BY <2>8, <2>9, Zenon
  <1> QED BY <1>2, <1>3, Zenon

LEMMA OutboundsSliceIsText ==
  ASSUME NEW T, NEW c \in Seq(T)
  PROVE  ExtractOutboundsSlice(c) \in Seq(T)
  <1> DEFINE start == FindBracket(c, "[", Find(c, "outbounds", 1))
             end   == FindMatchingBracket(c, start, "[", "]")
  <1>1. ExtractOutboundsSlice(c) = IF end = 0 THEN <<>> ELSE SubSeq(c, start, end)
    BY Zenon DEF ExtractOutboundsSlice
  <1>2. start \in Nat
    <2>1. 1 \in Nat
      OBVIOUS
    <2> QED BY <2>1, FindNat, Zenon
  <1>3. ASSUME end # 0 PROVE SubSeq(c, start, end) \in Seq(T)
    <2>1. start # 0 /\ end \in start .. Len(c)
      BY <1>2, <1>3, MatchingIs, Zenon
    <2> HIDE DEF start
    <2>2. start \in Nat
      BY <1>2
    <2> HIDE DEF end
    <2>3. start \in 1 .. Len(c) + 1 /\ end \in start - 1 .. Len(c)
      BY <2>1, <2>2
    <2> QED BY <2>3, Part, Zenon
  <1>4. <<>> \in Seq(T)
    OBVIOUS
  <1> QED BY <1>1, <1>3, <1>4, Zenon

\* The tag that is read is one of the tokens.
LEMMA PreferredTagIsToken ==
  ASSUME NEW T, NEW c \in Seq(T), ValuesOf(ExtractOutboundsSlice(c), "tag") # {}
  PROVE  FindPreferredOutboundTag(c) \in T
  <1> DEFINE slice == ExtractOutboundsSlice(c)
             tags  == ValuesOf(slice, "tag")
  <1>1. slice \in Seq(T)
    BY OutboundsSliceIsText
  <1>2. tags \subseteq 3 .. Len(slice)
    BY Zenon DEF ValuesOf
  <1>3. \/ FindPreferredOutboundTag(c) = slice[Min(tags)]
        \/ \E i \in tags : slice[i] = FindPreferredOutboundTag(c)
    BY Zenon DEF FindPreferredOutboundTag
  <1>4. tags # {}
    OBVIOUS
  <1> HIDE DEF tags, slice
  <1>5. tags \subseteq Nat /\ \A i \in tags : slice[i] \in T
    BY <1>1, <1>2
  <1>6. Min(tags) \in tags
    BY <1>4, <1>5, LeastNat
  <1> QED BY <1>3, <1>5, <1>6, Zenon

LEMMA InjectTunRoutingKeeps ==
  ASSUME NEW T, Words \subseteq T, NEW c \in Seq(T), InjectTunRouting(c) # <<>>
  PROVE  InjectTunRouting(c) \in Seq(T) /\ Kept(c, InjectTunRouting(c), {})
  <1> DEFINE rule   == Rule(FindPreferredOutboundTag(c))
             rules  == <<"rules", ":">> \o InArray(rule)
             opened == <<"routing", ":", "{", "domainStrategy", ":", "UseIp", ",">>
             key    == Find(c, "routing", 1)
             object == FindBracket(c, "{", key)
             array  == Find(c, "rules", object)
  <1>1. ValuesOf(ExtractOutboundsSlice(c), "tag") # {}
    <2>1. FindPreferredOutboundTag(c) # ""
      BY Zenon DEF InjectTunRouting
    <2> QED BY <2>1, Zenon DEF FindPreferredOutboundTag
  <1>2. rule \in Seq(T)
    <2>1. <<>> \in Seq(T)
      OBVIOUS
    <2> QED BY <1>1, <2>1, PreferredTagIsToken, WrittenIsText, Zenon
  <1>3. rules \in Seq(T)
    <2>1. <<"rules", ":">> \in Seq(T)
      BY WordsAreTokens, Tuple2, Zenon
    <2> QED BY <1>2, <2>1, InArrayIsText, ConcatIsText, Zenon
  <1>4. opened \o rules \o <<"}">> \in Seq(T)
    <2>1. opened \in Seq(T) /\ <<"}">> \in Seq(T)
      BY WordsAreTokens, Tuple7, Tuple1, Zenon
    <2> HIDE DEF opened, rules
    <2>2. opened \o rules \in Seq(T)
      BY <1>3, <2>1, ConcatIsText, Zenon
    <2> QED BY <2>1, <2>2, ConcatIsText, Zenon
  <1>5. key \in Nat /\ array \in Nat
    <2>1. 1 \in Nat
      OBVIOUS
    <2>2. key \in Nat
      BY <2>1, FindNat, Zenon
    <2>3. object \in Nat
      BY <2>2, FindNat, Zenon
    <2> QED BY <2>2, <2>3, FindNat, Zenon
  <1>6. \/ InjectTunRouting(c) = AppendToRoot(c, opened \o rules \o <<"}">>)
        \/ InjectTunRouting(c) = AppendInside(c, array, "[", "]", rule)
        \/ InjectTunRouting(c) = AppendInside(c, key, "{", "}", rules)
    BY Zenon DEF InjectTunRouting
  <1> HIDE DEF rule, rules, opened, key, object, array
  <1>7. CASE InjectTunRouting(c) = AppendToRoot(c, opened \o rules \o <<"}">>)
    BY <1>4, <1>7, AppendToRootKeeps, Zenon
  <1>8. CASE InjectTunRouting(c) = AppendInside(c, array, "[", "]", rule)
    BY <1>2, <1>5, <1>8, AppendInsideKeeps, Zenon
  <1>9. CASE InjectTunRouting(c) = AppendInside(c, key, "{", "}", rules)
    BY <1>3, <1>5, <1>9, AppendInsideKeeps, Zenon
  <1> QED BY <1>6, <1>7, <1>8, <1>9, Zenon

\* Whatever the app's text is, JSON or not, and whatever stands where: if BuildEffectiveConfig
\* returns a configuration for TUN mode, the text of the app is still there, token by token
\* and in order, beside what was inserted; only InjectDnsServers replaces anything, and that
\* is one stretch, from the first "dns" to the brace that closes the next one.
THEOREM EditsKeepText ==
  ASSUME NEW T, Words \subseteq T, NEW c \in Seq(T), NEW servers \in Seq(T), NEW wantsTun,
         NEW elevated, NEW wintun,
         BuildEffectiveConfig(c, servers, wantsTun, elevated, wintun).note = "tun"
  PROVE  LET inserted == InsertTunInbound(c, servers)
             resolved == InjectDnsServers(inserted, servers)
             routed   == BuildEffectiveConfig(c, servers, wantsTun, elevated, wintun).text
         IN /\ Kept(c, inserted, {})
            /\ Kept(inserted, resolved, DnsSection(inserted))
            /\ Kept(resolved, routed, {})
  <1> DEFINE inserted == InsertTunInbound(c, servers)
             resolved == InjectDnsServers(inserted, servers)
             built    == BuildEffectiveConfig(c, servers, wantsTun, elevated, wintun)
             Fails(note) == [text |-> <<>>, note |-> note]
  <1>1. \/ built.note # "tun"
        \/ inserted # <<>> /\ resolved # <<>> /\ InjectTunRouting(resolved) # <<>>
           /\ built.text = InjectTunRouting(resolved)
    <2> DEFINE routed == InjectTunRouting(resolved)
               tagless == FindPreferredOutboundTag(resolved) = ""
    <2>1. built = IF ~wantsTun THEN [text |-> c, note |-> "proxy"]
                  ELSE IF ~elevated THEN Fails("not_elevated")
                  ELSE IF ~wintun THEN Fails("missing_wintun")
                  ELSE IF inserted = <<>> THEN Fails("invalid_config")
                  ELSE IF resolved = <<>> THEN Fails("invalid_dns")
                  ELSE IF tagless THEN Fails("missing_outbound_tag")
                  ELSE IF routed = <<>> THEN Fails("invalid_routing")
                  ELSE [text |-> routed, note |-> "tun"]
      BY Zenon DEF BuildEffectiveConfig
    <2> HIDE DEF inserted, resolved, built, routed, tagless
    <2>2. \/ built.note # "tun"
          \/ /\ inserted # <<>> /\ resolved # <<>> /\ routed # <<>>
             /\ built.text = routed
      BY <2>1
    <2> QED BY <2>2, Zenon DEF routed
  <1> HIDE DEF inserted, resolved, built
  <1>2. built.note = "tun"
    BY DEF built
  <1>3. inserted \in Seq(T) /\ Kept(c, inserted, {})
    BY <1>1, <1>2, InsertTunInboundKeeps, Zenon DEF inserted
  <1>4. resolved \in Seq(T) /\ Kept(inserted, resolved, DnsSection(inserted))
    BY <1>1, <1>2, <1>3, InjectDnsServersKeeps, Zenon DEF resolved
  <1>5. Kept(resolved, built.text, {})
    BY <1>1, <1>2, <1>4, InjectTunRoutingKeeps, Zenon
  <1> QED BY <1>3, <1>4, <1>5, Zenon DEF inserted, resolved, built
=============================================================================
