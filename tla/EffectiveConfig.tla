--------------------------- MODULE EffectiveConfig ---------------------------
(***************************************************************************)
(* BuildEffectiveConfig (shared/desktop_v2ray_core.cc): how the core turns *)
(* the app's Xray configuration into one for TUN mode, by searching and    *)
(* splicing its text.                                                      *)
(*                                                                         *)
(* A text is a sequence of tokens: the punctuation of JSON, and strings as *)
(* a whole.  std::string::find of a quoted word finds the token, whether   *)
(* it is a key or a value; find of a bracket also looks inside strings.    *)
(* White space is left out.  <<>> stands for npos, for a helper's FALSE,   *)
(* and for the empty string.                                               *)
(***************************************************************************)
EXTENDS Integers, Sequences, SequencesExt, FiniteSets

TunTag == "dart_v2ray_tun_in"

Punctuation == {"{", "}", "[", "]", ":", ","}

\* Two strings that hold a bracket without its partner.
Bracketed == [t \in {"EU]", "{EU"} |-> IF t = "EU]" THEN "]" ELSE "{"]

\* What a search that does not look at quotes sees of a token.
Seen(t) == IF t \in DOMAIN Bracketed THEN Bracketed[t] ELSE t

-----------------------------------------------------------------------------
(* Searching and splicing.                                                 *)

Find(c, word, from) ==
  IF from = 0 THEN 0 ELSE SelectInSubSeq(c, from, Len(c), LAMBDA t : t = word)

FindBracket(c, bracket, from) ==
  IF from = 0 THEN 0 ELSE SelectInSubSeq(c, from, Len(c), LAMBDA t : Seen(t) = bracket)

\* Where the bracket opened at start closes in s, 0 if it never does.
Closing(s, start, open, close) ==
  LET Count(b, i) == Cardinality({j \in start .. i : s[j] = b})
      ends == {i \in start .. Len(s) : s[i] = close /\ Count(open, i) = Count(close, i)}
  IN IF start = 0 \/ ends = {} THEN 0 ELSE Min(ends)

FindMatchingBracket(c, start, open, close) ==
  Closing([i \in DOMAIN c |-> Seen(c[i])], start, open, close)


FindRootObjectEnd(c) == Closing(c, 1, "{", "}")

InsertBefore(c, i, s) == SubSeq(c, 1, i - 1) \o s \o SubSeq(c, i, Len(c))

\* A member at the end of the root object.
AppendToRoot(c, member) ==
  LET end == FindRootObjectEnd(c)
      comma == IF end > 1 /\ c[end - 1] # "{" THEN <<",">> ELSE <<>>
  IN IF end = 0 THEN <<>> ELSE InsertBefore(c, end, comma \o member)

\* An item at the end of the next array or object after a position.
AppendInside(c, from, open, close, item) ==
  LET start == FindBracket(c, open, from)
      end   == FindMatchingBracket(c, start, open, close)
      comma == IF end = start + 1 THEN <<>> ELSE <<",">>
  IN IF end = 0 THEN <<>> ELSE InsertBefore(c, end, comma \o item)

-----------------------------------------------------------------------------
(* What is inserted.                                                       *)

InArray(item) == <<"[">> \o item \o <<"]">>

\* The words of a list with commas between them.
Strings(words) ==
  InArray([i \in 1 .. 2 * Len(words) - 1 |->
             IF i % 2 = 1 THEN words[(i + 1) \div 2] ELSE ","])

TunInbound(dns) ==
  <<"{", "tag", ":", TunTag, ",", "protocol", ":", "tun", ",", "settings", ":", "{",
    "name", ":", "xray-wintun">>
  \o (IF dns = <<>> THEN <<>> ELSE <<",", "dns", ":">> \o Strings(dns))
  \o <<"}", "}">>

DnsObject(dns) ==
  <<"{", "servers", ":">>
  \o Strings(IF dns = <<>> THEN <<"8.8.8.8", "1.1.1.1">> ELSE dns) \o <<"}">>

Rule(tag) == <<"{", "inboundTag", ":", "[", TunTag, "]", ",", "outboundTag", ":", tag, "}">>

-----------------------------------------------------------------------------
(* What is read from the outbounds.                                        *)

ExtractOutboundsSlice(c) ==
  LET start == FindBracket(c, "[", Find(c, "outbounds", 1))
      end   == FindMatchingBracket(c, start, "[", "]")
  IN IF end = 0 THEN <<>> ELSE SubSeq(c, start, end)

HasUsableOutbounds(c) == FindBracket(ExtractOutboundsSlice(c), "{", 1) # 0

\* The places of the strings that follow "key":, as the regular expressions match them.
ValuesOf(s, key) ==
  {i \in 3 .. Len(s) : s[i - 2] = key /\ s[i - 1] = ":" /\ s[i] \notin Punctuation}

FindPreferredOutboundTag(c) ==
  LET slice == ExtractOutboundsSlice(c)
      tags  == ValuesOf(slice, "tag")
  IN IF tags = {} THEN ""
     ELSE IF \E i \in tags : slice[i] = "proxy" THEN "proxy"
     ELSE slice[Min(tags)]

\* IsLikelyRemoteHost, on the few hosts that stand for the patterns it turns away.
IsLikelyRemoteHost(host) == host \notin {"", "localhost", "127.0.0.1", "169.254.0.1"}

ExtractOutboundDestinationHosts(c) ==
  LET slice == ExtractOutboundsSlice(c)
  IN {host \in {slice[i] : i \in ValuesOf(slice, "address")} : IsLikelyRemoteHost(host)}

-----------------------------------------------------------------------------
(* The three edits, and their order.                                       *)

HasTunInbound(c) == \E i \in ValuesOf(c, "tag") : c[i] = TunTag

\* Faulty variant: a configuration that has the inbound gets it a second time.
InsertTunInboundTwice(c, dns) ==
  LET inbounds == Find(c, "inbounds", 1)
  IN IF inbounds = 0
     THEN AppendToRoot(c, <<"inbounds", ":">> \o InArray(TunInbound(dns)))
     ELSE AppendInside(c, inbounds, "[", "]", TunInbound(dns))

InsertTunInbound(c, dns) ==
  LET inbounds == Find(c, "inbounds", 1)
  IN IF HasTunInbound(c) THEN c
     ELSE IF inbounds = 0
          THEN AppendToRoot(c, <<"inbounds", ":">> \o InArray(TunInbound(dns)))
          ELSE AppendInside(c, inbounds, "[", "]", TunInbound(dns))

InjectDnsServers(c, dns) ==
  LET member == <<"dns", ":">> \o DnsObject(dns)
      key    == Find(c, "dns", 1)
      end    == FindMatchingBracket(c, FindBracket(c, "{", key), "{", "}")
  IN IF key = 0 THEN AppendToRoot(c, member)
     ELSE IF end = 0 THEN <<>>
     ELSE SubSeq(c, 1, key - 1) \o member \o SubSeq(c, end + 1, Len(c))

InjectTunRouting(c) ==
  LET rule   == Rule(FindPreferredOutboundTag(c))
      rules  == <<"rules", ":">> \o InArray(rule)
      key    == Find(c, "routing", 1)
      object == FindBracket(c, "{", key)
      array  == Find(c, "rules", object)
  IN IF FindPreferredOutboundTag(c) = "" THEN <<>>
     ELSE IF key = 0
          THEN AppendToRoot(c, <<"routing", ":", "{", "domainStrategy", ":", "UseIp", ",">>
                               \o rules \o <<"}">>)
     ELSE IF object = 0 THEN <<>>
     ELSE IF array # 0 THEN AppendInside(c, array, "[", "]", rule)
     ELSE AppendInside(c, key, "{", "}", rules)

\* The text and the mode note; an empty text means that the start fails.
BuildEffectiveConfig(c, dns, tun, elevated, wintun) ==
  LET inserted == InsertTunInbound(c, dns)
      resolved == InjectDnsServers(inserted, dns)
      routed   == InjectTunRouting(resolved)
      Fails(note) == [text |-> <<>>, note |-> note]
  IN IF ~tun THEN [text |-> c, note |-> "proxy"]
     ELSE IF ~elevated THEN Fails("not_elevated")
     ELSE IF ~wintun THEN Fails("missing_wintun")
     ELSE IF inserted = <<>> THEN Fails("invalid_config")
     ELSE IF resolved = <<>> THEN Fails("invalid_dns")
     ELSE IF FindPreferredOutboundTag(resolved) = "" THEN Fails("missing_outbound_tag")
     ELSE IF routed = <<>> THEN Fails("invalid_routing")
     ELSE [text |-> routed, note |-> "tun"]

-----------------------------------------------------------------------------
(* The reference: the same edits on a document, a sequence of members      *)
(* <<key, value>>.  The value of a list is the sequence of its items, that *)
(* of "routing" a sequence of members, any other one is text.              *)

Commas(parts) ==
  FoldLeft(LAMBDA text, part : IF text = <<>> THEN part ELSE text \o <<",">> \o part,
           <<>>, parts)

Array(items) == InArray(Commas(items))

Lists == {"inbounds", "outbounds", "rules"}

Member(m) == <<m[1], ":">> \o (IF m[1] \in Lists THEN Array(m[2]) ELSE m[2])

Object(members) == <<"{">> \o Commas([i \in DOMAIN members |-> Member(members[i])]) \o <<"}">>

Section(m) == IF m[1] = "routing" THEN <<"routing", ":">> \o Object(m[2]) ELSE Member(m)

\* The text of a document.
Text(doc) == <<"{">> \o Commas([i \in DOMAIN doc |-> Section(doc[i])]) \o <<"}">>

Place(doc, key) == SelectInSeq(doc, LAMBDA m : m[1] = key)

Get(doc, key, default) == IF Place(doc, key) = 0 THEN default ELSE doc[Place(doc, key)][2]

Put(doc, key, value) ==
  IF Place(doc, key) = 0 THEN Append(doc, <<key, value>>)
  ELSE [doc EXCEPT ![Place(doc, key)] = <<key, value>>]

WithTunInbound(doc, dns) ==
  IF HasTunInbound(Text(doc)) THEN doc
  ELSE Put(doc, "inbounds", Append(Get(doc, "inbounds", <<>>), TunInbound(dns)))

\* The document a TUN session is meant to run with.
Intended(doc, dns) ==
  LET resolved == Put(WithTunInbound(doc, dns), "dns", DnsObject(dns))
      routing  == Get(resolved, "routing", <<<<"domainStrategy", <<"UseIp">>>>>>)
      rules    == Append(Get(routing, "rules", <<>>), Rule(FindPreferredOutboundTag(Text(doc))))
  IN Put(resolved, "routing", Put(routing, "rules", rules))

\* The documents a search in the text understands: nothing before the key "dns", the
\* new inbound included, reads "dns", and no string holds half of a pair of brackets.
Unambiguous(doc, dns) ==
  LET edited == WithTunInbound(doc, dns)
  IN /\ \A i \in DOMAIN edited :
          edited[i][1] # "dns" /\ Contains(Section(edited[i]), "dns")
            => \E j \in 1 .. i - 1 : edited[j][1] = "dns"
     /\ \A word \in DOMAIN Bracketed : ~Contains(Text(doc), word)
=============================================================================
