--------------------------- MODULE MCTunNetworking ---------------------------
(* Small instances of TunNetworking for TLC: addresses of three bits, servers at 1 *)
(* and, on the local network, at 6.                                                *)
EXTENDS TunNetworking

MCAddresses == [far |-> {1}, near |-> {1, 6}]

\* The default route and the local network; the same and a host route of the user's own.
MCTables ==
  {{<<0, 0, "eth">>, <<4, 1, OnLink>>},
   {<<0, 0, "eth">>, <<4, 1, OnLink>>, <<1, 3, "eth">>}}

Outbound(protocol, tag, host) ==
  <<"{", "protocol", ":", protocol, ",", "tag", ":", tag, ",", "address", ":", host, "}">>

Untagged == <<"{", "protocol", ":", "vless", ",", "address", ":", "far", "}">>

MCOutbounds ==
  {<<>>, <<Untagged>>,
   <<Outbound("freedom", "direct", "localhost"), Outbound("vless", "proxy", "far")>>,
   <<Outbound("vless", "EU]", "far")>>,
   <<Outbound("dns", "dns-out", "near"), Outbound("vless", "first", "far")>>}

MCDnsLists == {<<>>, <<"9.9.9.9">>}

Socks == <<"{", "tag", ":", "in_proxy", ",", "protocol", ":", "socks", "}">>

\* A document: outbounds, and any of the other sections, in any order.
MCRoutings ==
  {<<>>, <<<<"domainStrategy", <<"AsIs">>>>>>, <<<<"rules", <<>>>>>>,
   <<<<"rules", <<Rule("direct")>>>>, <<"balancers", <<"[", "]">>>>>>}

MCDns == <<"{", "servers", ":", "[", "{", "address", ":", "9.9.9.9", "}", "]", "}">>

MCDocuments ==
  {[i \in DOMAIN keys |->
      <<keys[i], CASE keys[i] = "outbounds" -> o [] keys[i] = "inbounds" -> n
                   [] keys[i] = "routing"   -> r [] OTHER                -> MCDns>>] :
     keys \in UNION {SetToSeqs({"outbounds"} \cup S) :
                       S \in SUBSET {"inbounds", "dns", "routing"}},
     o \in MCOutbounds, n \in {<<>>, <<Socks>>, <<TunInbound(<<>>)>>}, r \in MCRoutings}

Cidr(ip, prefix) == [kind |-> "cidr", ip |-> ip, prefix |-> prefix]
IPv6 == [kind |-> "other", ip |-> 0, prefix |-> 0]

\* The present caller's option, the older ones, and no option at all.
Mode(required, legacy, proxyOnly) ==
  [required |-> required, legacy |-> legacy, proxyOnly |-> proxyOnly]

MCModes == {Mode(TRUE, None, None), Mode(FALSE, TRUE, None), Mode(None, TRUE, TRUE),
            Mode(None, None, FALSE), Mode(None, None, None)}

\* The local network and one around a server, with host bits; a server; everything,
\* written as usual and otherwise.
MCBypassLists ==
  {<<>>, <<Cidr(5, 1), IPv6, Cidr(1, 2)>>, <<Cidr(1, 3)>>, <<Cidr(0, 0), Cidr(3, 0)>>}

\* What the package's own share links give (lib/src/share_links/v2ray_url.dart:130), with
\* and without resolvers.
MCShareLinks ==
  {<<<<"inbounds", <<Socks>>>>,
     <<"outbounds", <<Outbound("vless", "proxy", "far"), Outbound("freedom", "direct", "")>>>>,
     <<"dns", DnsObject(<<"8.8.8.8", "8.8.4.4">>)>>,
     <<"routing", <<<<"domainStrategy", <<"UseIp">>>>, <<"rules", <<>>>>>>>>>>}
=============================================================================
