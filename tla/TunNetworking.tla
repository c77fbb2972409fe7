---------------------------- MODULE TunNetworking ----------------------------
(***************************************************************************)
(* A start of DesktopV2rayCore (shared/desktop_v2ray_core.cc) from the     *)
(* method call to the routes: the configuration it runs xray with, the     *)
(* routes and the DNS setting ApplyTunNetworking makes command by command, *)
(* and CleanupTunNetworking, which undoes what was recorded.               *)
(*                                                                         *)
(* All of it runs on the platform thread; beside it only the xray process  *)
(* moves, which may exit and take the adapter with it.  (A Stop(true) of   *)
(* the timer thread that overlaps another Stop is DesktopCore's matter.)   *)
(* Addresses have Width bits; the routing table and its commands are those *)
(* of Windows, as the code uses them.                                      *)
(***************************************************************************)
EXTENDS EffectiveConfig

CONSTANTS
  Width,       \* bits of an address
  Tun,         \* the gateway 172.19.0.1 on xray-wintun
  Gateways,    \* the gateways of the other interfaces
  OnLink,      \* the local network: no gateway (0.0.0.0)
  None,        \* an empty optional
  Modes,       \* require_tun, windows_require_tun and proxy_only, as the app may pass them
  Tables,      \* bound: the routing tables a session may meet
  Documents,   \* the configurations the app may pass
  DnsLists,    \* the dns_servers it may pass
  BypassLists, \* the bypass_subnets it may pass
  Addresses    \* host -> the IPv4 addresses it resolves to

Address == 0 .. 2 ^ Width - 1
Vias    == Gateways \cup {Tun, OnLink}

\* A route: network, prefix length, and where it leads.
Routes == Address \X (0 .. Width) \X Vias

\* An entry of bypass_subnets: an IPv4 network, or anything else.
Subnets == [kind : {"cidr", "other"}, ip : Address, prefix : 0 .. Width]

ASSUME TunAssumption ==
  /\ Width \in Nat \ {0}
  /\ Tun \notin Gateways \cup {OnLink, None} /\ OnLink \notin Gateways \cup {None}
  /\ None \notin Gateways
  /\ \A table \in Tables : table \subseteq {r \in Routes : r[3] # Tun}
  /\ BypassLists \subseteq Seq(Subnets)
  /\ \A host \in DOMAIN Addresses : Addresses[host] \subseteq Address

VARIABLES
  pc,         \* where the start is
  call,       \* the arguments of the start: document, dns, bypass, and the two modes asked for
  effective,  \* what BuildEffectiveConfig returned
  transport,  \* transport_mode_
  hosts,      \* outbound hosts still to be excluded
  targets,    \* addresses of the current host still to be excluded
  bypass,     \* bypass_subnets still to be routed
  table,      \* the routing table of the system
  adapter,    \* TRUE: the adapter xray-wintun exists
  deletes,    \* configured_route_delete_commands_, as the routes they delete
  dns,        \* configured_dns_interface_ is not empty
  upstream,   \* upstream_interface_index_
  origin,     \* history: the table before the session
  taken,      \* history: routes a change command has taken over
  stuck,      \* history: routes a delete command failed to delete
  excluded,   \* history: addresses kept out of the tunnel
  bypassed    \* history: the networks of bypass_subnets that were routed

tun  == <<hosts, targets, bypass, dns, upstream>>
net  == <<table, adapter, deletes>>
hist == <<origin, taken, stuck, excluded, bypassed>>
vars == <<pc, call, effective, transport, tun, net, hist>>

-----------------------------------------------------------------------------
(* The system's routes.                                                    *)

\* An address under a mask of the given length, all ones for a host.
Network(ip, length) == IF length = Width THEN ip ELSE ip - (ip % 2 ^ (Width - length))

Covers(r, ip) == Network(ip, r[2]) = Network(r[1], r[2])

\* Where the routes lead that are the longest match of an address.
BestVias(ip) ==
  LET matches == {r \in table : Covers(r, ip)}
  IN {r[3] : r \in {m \in matches : \A n \in matches : n[2] <= m[2]}}

\* GetBestRouteForDestination: a route without a gateway counts as none.
GetBestRouteForDestination(ip) ==
  IF BestVias(ip) = {} THEN {None}
  ELSE {IF via = OnLink THEN None ELSE via : via \in BestVias(ip)}

\* Faulty variant: the mask of an exclusion is one bit short.
HostRouteWide(ip, via) == <<ip - (ip % 2), Width - 1, via>>

HostRoute(ip, via) == <<ip, Width, via>>
DefaultRoute       == <<0, 0, Tun>>

WithoutAdapter(routes) == {r \in routes : r[3] # Tun}

\* add_or_change_route: "route add" refuses a route that is there, and may fail anyway;
\* "route change" then needs a route to the same network, and turns it into this one.
\* Without its adapter no route leads into the tunnel.
AddOrChangeRoute(r) ==
  LET rivals == IF r \in table THEN {r} ELSE {q \in table : q[1] = r[1] /\ q[2] = r[2]}
  IN {[ok |-> FALSE, table |-> table, taken |-> {}]}
     \cup IF r[3] = Tun /\ ~adapter THEN {}
          ELSE {[ok |-> TRUE, table |-> table \cup {r}, taken |-> {}] : x \in {r} \ table}
               \cup {[ok |-> TRUE, table |-> (table \ {q}) \cup {r}, taken |-> {q}] : q \in rivals}

-----------------------------------------------------------------------------
(* The start up to the xray process.                                       *)

\* HandleMethodCall: the mode asked for, and that of older callers.
RequireTun(mode) ==
  IF mode.required # None THEN mode.required
  ELSE IF mode.legacy # None THEN mode.legacy
  ELSE IF mode.proxyOnly # None THEN ~mode.proxyOnly
  ELSE FALSE

NoCall   == [doc |-> <<>>, dns |-> <<>>, bypass |-> <<>>, tun |-> FALSE]
NoConfig == [text |-> <<>>, note |-> "none"]

StartVless ==
  /\ pc = "idle" /\ table \in Tables
  /\ \E doc \in Documents, servers \in DnsLists, subnets \in BypassLists, mode \in Modes :
       call' = [doc |-> doc, dns |-> servers, bypass |-> subnets, tun |-> RequireTun(mode)]
  /\ pc' = "build"
  /\ origin' = table
  /\ taken' = {} /\ stuck' = {} /\ excluded' = {} /\ bypassed' = {}
  /\ UNCHANGED <<effective, transport, tun, net>>

\* The files that discovery found are enough for the mode.
ValidateRuntime(found) == "xray.exe" \in found /\ (call.tun => "wintun.dll" \in found)

\* Discovery, validation and BuildEffectiveConfig; an empty text fails the start.
Build ==
  /\ pc = "build"
  /\ \E found \in SUBSET {"xray.exe", "wintun.dll"}, elevated \in BOOLEAN :
       LET text == Text(call.doc)
       IN effective' =
            IF ~ValidateRuntime(found) THEN [text |-> <<>>, note |-> "runtime"]
            ELSE IF ~HasUsableOutbounds(text) THEN [text |-> <<>>, note |-> "no_outbounds"]
            ELSE BuildEffectiveConfig(text, call.dns, call.tun, elevated, "wintun.dll" \in found)
  /\ pc' = "built"
  /\ UNCHANGED <<call, transport, tun, net, hist>>

\* fail_start, also for a configuration that cannot be written and for CreateProcess.
FailStart ==
  /\ pc = "built"
  /\ pc' = "idle"
  /\ call' = NoCall /\ effective' = NoConfig
  /\ UNCHANGED <<transport, tun, net, hist>>

\* xray runs.  In TUN mode ApplyTunNetworking begins, with nothing recorded.
Launch ==
  /\ pc = "built" /\ effective.text # <<>>
  /\ transport' = IF effective.note = "tun" THEN "tun" ELSE "proxy"
  /\ pc' = IF effective.note = "tun" THEN "wait" ELSE "up"
  /\ hosts' = IF effective.note = "tun"
              THEN ExtractOutboundDestinationHosts(effective.text) ELSE {}
  /\ bypass' = IF effective.note = "tun" THEN call.bypass ELSE <<>>
  /\ deletes' = {} /\ dns' = FALSE /\ upstream' = None
  /\ call' = NoCall /\ effective' = NoConfig
  /\ UNCHANGED <<targets, table, adapter, hist>>

-----------------------------------------------------------------------------
(* ApplyTunNetworking: a failure continues with Start's second Stop().     *)

Fail == pc' = "cleanup"

\* FindInterfaceIndexByFriendlyName, every half second: there at last, or never.
WaitForAdapter ==
  /\ pc = "wait"
  /\ IF adapter THEN pc' = "exclude" ELSE Fail
  /\ UNCHANGED <<call, effective, transport, tun, net, hist>>

ResolveHost ==
  /\ pc = "exclude" /\ targets = {}
  /\ \E host \in hosts :
       /\ hosts' = hosts \ {host}
       /\ targets' \in {{}, Addresses[host]}
  /\ UNCHANGED <<pc, call, effective, transport, bypass, dns, upstream, net, hist>>

\* One address of an outbound server: no route without a gateway or into the tunnel, and
\* a route that cannot be made is only logged.
ExcludeServer ==
  /\ pc = "exclude"
  /\ \E ip \in targets :
       /\ targets' = targets \ {ip}
       /\ \E via \in GetBestRouteForDestination(ip) :
            IF via \in {None, Tun}
            THEN UNCHANGED <<upstream, net, taken, excluded>>
            ELSE /\ upstream' = IF upstream = None THEN via ELSE upstream
                 /\ \E done \in AddOrChangeRoute(HostRoute(ip, via)) :
                      /\ table' = done.table
                      /\ taken' = taken \cup done.taken
                      /\ deletes' = IF done.ok THEN deletes \cup {HostRoute(ip, via)} ELSE deletes
                      /\ excluded' = IF done.ok THEN excluded \cup {ip} ELSE excluded
                 /\ UNCHANGED adapter
  /\ UNCHANGED <<pc, call, effective, transport, hosts, bypass, dns, origin, stuck, bypassed>>

\* "netsh interface ipv4 set address": the gateway may bring a default route of its own.
SetAddress ==
  /\ pc = "exclude" /\ hosts = {} /\ targets = {}
  /\ \/ /\ adapter
        /\ pc' = "default"
        /\ table' \in {table, table \cup {DefaultRoute}}
     \/ Fail /\ UNCHANGED table
  /\ UNCHANGED <<call, effective, transport, tun, adapter, deletes, hist>>

AddDefaultRoute ==
  /\ pc = "default"
  /\ \E done \in AddOrChangeRoute(DefaultRoute) :
       /\ table' = done.table
       /\ taken' = taken \cup done.taken
       /\ IF done.ok THEN pc' = "bypass" /\ deletes' = deletes \cup {DefaultRoute}
                     ELSE Fail /\ UNCHANGED deletes
  /\ UNCHANGED <<call, effective, transport, tun, adapter, origin, stuck, excluded, bypassed>>

\* One subnet of bypass_subnets, under its mask (ParseIpv4Cidr): "0.0.0.0/0", IPv6 and what does not parse are left out,
\* every other one is routed to the gateway of the TUN interface.
AddBypass ==
  /\ pc = "bypass" /\ bypass # <<>>
  /\ bypass' = Tail(bypass)
  /\ LET subnet == Head(bypass)
         r      == <<Network(subnet.ip, subnet.prefix), subnet.prefix, Tun>>
     IN IF subnet.kind # "cidr" \/ (subnet.ip = 0 /\ subnet.prefix = 0)
        THEN UNCHANGED <<table, deletes, taken, bypassed>>
        ELSE \E done \in AddOrChangeRoute(r) :
               /\ table' = done.table
               /\ taken' = taken \cup done.taken
               /\ deletes' = IF done.ok THEN deletes \cup {r} ELSE deletes
               /\ bypassed' = IF done.ok THEN bypassed \cup {<<r[1], r[2]>>} ELSE bypassed
  /\ UNCHANGED <<pc, call, effective, transport, hosts, targets, dns, upstream, adapter,
                 origin, stuck, excluded>>

\* The first server decides; further ones may fail.
SetDns ==
  /\ pc = "bypass" /\ bypass = <<>>
  /\ \/ adapter /\ pc' = "up" /\ dns' = TRUE
     \/ Fail /\ UNCHANGED dns
  /\ UNCHANGED <<call, effective, transport, hosts, targets, bypass, upstream, net, hist>>

-----------------------------------------------------------------------------
(* Stop: CleanupTunNetworking, and the end of the process.                 *)

Stop ==
  /\ pc = "up"
  /\ pc' = "cleanup"
  /\ UNCHANGED <<call, effective, transport, tun, net, hist>>

\* Faulty variant: a command that fails ends the clean-up.
CleanupUntilFailure ==
  /\ pc = "cleanup"
  /\ pc' = "terminate"
  /\ \E run \in SUBSET (deletes \cap table), failed \in SUBSET (deletes \cap table) :
       /\ Cardinality(failed) <= 1 /\ failed \cap run = {}
       /\ failed = {} => run = deletes \cap table
       /\ table' = table \ run
       /\ stuck' = failed
  /\ deletes' = {} /\ dns' = FALSE /\ upstream' = None
  /\ UNCHANGED <<call, effective, transport, hosts, targets, bypass, adapter, origin, taken,
                 excluded, bypassed>>

\* Every recorded command runs, its result ignored; then everything is forgotten.
CleanupTunNetworking ==
  /\ pc = "cleanup"
  /\ pc' = "terminate"
  /\ \E failed \in SUBSET (deletes \cap table) :
       /\ table' = table \ (deletes \ failed)
       /\ stuck' = failed
  /\ deletes' = {} /\ dns' = FALSE /\ upstream' = None
  /\ UNCHANGED <<call, effective, transport, hosts, targets, bypass, adapter, origin, taken,
                 excluded, bypassed>>

Terminate ==
  /\ pc = "terminate"
  /\ pc' = "idle"
  /\ transport' = "idle"
  /\ hosts' = {} /\ targets' = {} /\ bypass' = <<>>
  /\ adapter' = FALSE
  /\ table' = WithoutAdapter(table)
  /\ UNCHANGED <<call, effective, dns, upstream, deletes, hist>>

-----------------------------------------------------------------------------
(* xray creates the adapter, and takes it along when it exits.             *)

AdapterComes ==
  /\ pc = "wait" /\ ~adapter
  /\ adapter' = TRUE
  /\ UNCHANGED <<pc, call, effective, transport, tun, table, deletes, hist>>

AdapterGoes ==
  /\ adapter
  /\ adapter' = FALSE
  /\ table' = WithoutAdapter(table)
  /\ UNCHANGED <<pc, call, effective, transport, tun, deletes, hist>>

-----------------------------------------------------------------------------
TunInit ==
  /\ pc = "idle" /\ call = NoCall /\ effective = NoConfig /\ transport = "idle"
  /\ hosts = {} /\ targets = {} /\ bypass = <<>> /\ dns = FALSE /\ upstream = None
  /\ table \in Tables /\ adapter = FALSE /\ deletes = {}
  /\ origin = table
  /\ taken = {} /\ stuck = {} /\ excluded = {} /\ bypassed = {}

TunNext ==
  \/ StartVless \/ Build \/ FailStart \/ Launch
  \/ WaitForAdapter \/ ResolveHost \/ ExcludeServer \/ SetAddress \/ AddDefaultRoute
  \/ AddBypass \/ SetDns
  \/ Stop \/ CleanupTunNetworking \/ Terminate
  \/ AdapterComes \/ AdapterGoes
  \/ pc = "idle" /\ table \notin Tables /\ UNCHANGED vars    \* bound: no further session

TunSpec == TunInit /\ [][TunNext]_vars

-----------------------------------------------------------------------------
(* Properties.                                                             *)

\* "TUN mode requires at least one outbound with a tag." (shared/desktop_v2ray_core.cc:
\* 1076): that error means that the configuration has none.
TagErrorMeansNoTag ==
  effective.note = "missing_outbound_tag" => FindPreferredOutboundTag(Text(call.doc)) = ""
\* BuildEffectiveConfig edits text, but what xray gets is the edited document, wherever
\* the sections stand and whichever are missing, and only a document without a tagged
\* outbound fails, unless a word that is searched for comes up elsewhere before.
EditsExact ==
  Unambiguous(call.doc, call.dns)
    => /\ effective.note = "tun" => effective.text = Text(Intended(call.doc, call.dns))
       /\ effective.note \notin {"invalid_config", "invalid_dns", "invalid_routing"}
       /\ TagErrorMeansNoTag

\* Whatever command failed, whatever was bypassed and whenever xray exited, a session that
\* is up does not route the address of a server it has excluded back into its own tunnel,
\* unless the app listed that very address.
NoLoop ==
  pc = "up" =>
    \A ip \in excluded : <<ip, Width>> \notin bypassed => Tun \notin BestVias(ip)

\* After a session, or a start that failed at any command, a route is new only if its
\* delete command failed, and one is missing only if a change command had taken it over.
RoutesUndone ==
  pc = "idle" => table \ origin \subseteq stuck /\ origin \ table \subseteq taken

-----------------------------------------------------------------------------
(* The inductive invariants the theorems of TunProofs rest on.             *)

\* Where the routes that are new or missing come from, at every point of a session.
UndoInv ==
  /\ \A r \in origin : r[3] # Tun
  /\ ~adapter => \A r \in table : r[3] # Tun
  /\ pc \in {"idle", "build", "built"} => ~adapter
  /\ pc \in {"idle", "build", "built", "terminate"} => deletes = {}
  /\ pc \notin {"idle", "terminate"} => stuck = {}
  /\ \A r \in table \ origin : r[3] = Tun \/ r \in deletes \cup stuck
  /\ origin \ table \subseteq taken
  /\ deletes \cap origin \subseteq taken

\* What is as specific as the route of an excluded address.
HostInv ==
  /\ bypass \in Seq(Subnets) /\ call.bypass \in Seq(Subnets)
  /\ \A r \in table : r[2] \in 0 .. Width
  /\ \A r \in table : r[2] = Width /\ r[3] = Tun => <<r[1], Width>> \in bypassed
  /\ pc \notin {"idle", "cleanup", "terminate"} =>
       \A ip \in excluded : <<ip, Width>> \notin bypassed
         => \E r \in table : r[1] = ip /\ r[2] = Width

-----------------------------------------------------------------------------
(* What the repository says, and the code does not do.                     *)

\* "`bypassSubnets`: subnets excluded from tunnel." (docs/platforms/android/README.md:42)
\* "Unable to add bypass route" (shared/desktop_v2ray_core.cc:2257): what a bypass route
\* was made for does not go through the tunnel.
BypassAvoidsTunnel ==
  pc = "up" => \A b \in bypassed, ip \in Address :
                 Covers(<<b[1], b[2], Tun>>, ip) => Tun \notin BestVias(ip)
=============================================================================
