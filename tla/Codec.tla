------------------------------- MODULE Codec -------------------------------
(***************************************************************************)
(* The two text files that carry a configuration from one command to the   *)
(* next: ubo.toml (internal/config/toml.go writes and reads it) and        *)
(* client_wg.conf (main writes it, contrib/rootless/parse.go reads it).    *)
(* One configuration is saved, annotated by hand, loaded, validated by     *)
(* `ubo run`, written out as client_wg.conf, perhaps cut short, and taken  *)
(* up by `ubo unlock`.                                                     *)
(*                                                                         *)
(* A line is a sequence of tokens: words the program writes, the letters   *)
(* of free text, and the separators the parsers look for.                  *)
(***************************************************************************)
EXTENDS Integers, Sequences, SequencesExt, TLC

CONSTANTS
    Configs,   \* the configurations looked at
    Letters,   \* the letters of free text: host names, paths, comments
    Atoi,      \* the numerals and their values
    NetOf,     \* of each IP address: the network that is its /24 (of IPv6 also its /32)
    IPv6       \* the IPv6 addresses among them

Q == "\""       \* the double quote
B == "\\"       \* the backslash
SP == " "

\* The schema in the order Marshal writes it: section, key, type.
Layout == << <<"", "host", "string">>,
    <<"ssh", "user", "string">>, <<"ssh", "port", "int">>, <<"ssh", "key", "string">>,
    <<"ssh", "sudo", "bool">>, <<"ssh", "proxy_jump", "string">>,
    <<"wireguard", "port", "int">>, <<"wireguard", "server_ip", "string">>,
    <<"wireguard", "client_ip", "string">>, <<"dropbear", "port", "int">>,
    <<"output", "dir", "string">>, <<"network", "interface", "string">>,
    <<"network", "ip", "string">>, <<"luks", "device", "string">> >>

Field(f) == <<f[1], f[2]>>
Fields == {Field(f) : f \in ToSet(Layout)}
KindOf == [f \in Fields |-> (CHOOSE l \in ToSet(Layout) : Field(l) = f)[3]]

Default ==
    [f \in Fields |->
        CASE f = <<"ssh", "user">>            -> <<"root">>
          [] f = <<"wireguard", "server_ip">> -> <<"10.42.0.1", "/", "2", "4">>
          [] f = <<"wireguard", "client_ip">> -> <<"10.42.0.2", "/", "3", "2">>
          [] f = <<"wireguard", "port">>      -> 51820
          [] f[2] = "port"                    -> 22
          [] f = <<"ssh", "sudo">>            -> FALSE
          [] OTHER                            -> <<>>]

\* The tokens the two parsers tell apart, and the words the program writes.
Special == {Q, B, SP, "#", "=", "[", "]", ":", "/", "true", "false"}
Words ==
    {l[1] : l \in ToSet(Layout)} \cup {l[2] : l \in ToSet(Layout)} \cup
    {"Interface", "Peer", "PrivateKey", "Address", "PublicKey", "Endpoint", "AllowedIPs",
     "PersistentKeepalive", "client key", "server key", "2", "3", "4", "25", "root", "/dev/"}

Tokens == Special \cup Words \cup Letters \cup DOMAIN Atoi \cup DOMAIN NetOf

\* The values of a field, as the Config struct types it.
Values(f) ==
    CASE KindOf[f] = "string" -> Seq(Tokens)
      [] KindOf[f] = "int"    -> {Atoi[n] : n \in DOMAIN Atoi}
      [] KindOf[f] = "bool"   -> BOOLEAN

\* A numeral or an address is never taken for a separator.
ASSUME CodecAssumption ==
    /\ \A c \in Configs : /\ c = [f \in Fields |-> c[f]]
                          /\ \A f \in Fields : c[f] \in Values(f)
    /\ \A n \in DOMAIN Atoi : n \notin Special /\ Atoi[n] \in Int
    /\ DOMAIN NetOf \cap Special = {} /\ IPv6 \subseteq DOMAIN NetOf

VARIABLES
    cfg,     \* the configuration that is saved, then the one loaded
    conf,    \* the lines of client_wg.conf
    peer,    \* what unlock parsed from it
    dial,    \* the address of Dropbear unlock goes to
    stage    \* "new", "loaded", "written", "parsed", "up" or "refused"

vars == <<cfg, conf, peer, dial, stage>>

-----------------------------------------------------------------------------
(* Reading and writing ubo.toml. *)

Trim(s) ==
    LET black == {i \in DOMAIN s : s[i] # SP}
    IN  IF black = {} THEN <<>> ELSE SubSeq(s, Min(black), Max(black))

\* s up to its first c, and what follows it; everything and nothing if there
\* is no c.
Before(s, c) == LET i == SelectInSeq(s, LAMBDA x : x = c)
                IN  IF i = 0 THEN s ELSE SubSeq(s, 1, i - 1)
After(s, c) == LET i == SelectInSeq(s, LAMBDA x : x = c)
               IN  IF i = 0 THEN <<>> ELSE SubSeq(s, i + 1, Len(s))

\* Mutant: a backslash is not escaped.
QuoteOnlyQuotes(s) ==
    <<Q>> \o FlattenSeq([i \in DOMAIN s |-> IF s[i] = Q THEN <<B, Q>> ELSE <<s[i]>>])
          \o <<Q>>

Quote(s) ==
    <<Q>> \o FlattenSeq([i \in DOMAIN s |->
                            IF s[i] \in {Q, B} THEN <<B, s[i]>> ELSE <<s[i]>>])
          \o <<Q>>

\* The string that starts with the quote s[1], and the rest of the line.
Unterminated == [ok |-> FALSE, val |-> <<>>, rest |-> <<>>]
ParseQuoted(s) ==
    LET scan[i \in 2..Len(s) + 2] ==
          IF i > Len(s) THEN Unterminated
          ELSE IF s[i] = Q
            THEN [ok |-> TRUE, val |-> <<>>, rest |-> SubSeq(s, i + 1, Len(s))]
          ELSE IF s[i] # B THEN [scan[i + 1] EXCEPT !.val = <<s[i]>> \o @]
          ELSE IF i < Len(s) /\ s[i + 1] \in {Q, B}   \* unescape
            THEN [scan[i + 2] EXCEPT !.val = <<s[i + 1]>> \o @]
          ELSE Unterminated
    IN  scan[2]

Wrong == [kind |-> "error", val |-> <<>>]

CommentOnly(rest) == Trim(rest) = <<>> \/ Head(Trim(rest)) = "#"

ParseValue(s) ==
    IF s = <<>> THEN Wrong
    ELSE IF s[1] = Q THEN
        LET p == ParseQuoted(s)
        IN  IF p.ok /\ CommentOnly(p.rest) THEN [kind |-> "string", val |-> p.val] ELSE Wrong
    ELSE LET tok == Trim(Before(s, "#")) IN
        CASE tok \in {<<"true">>, <<"false">>} -> [kind |-> "bool", val |-> tok = <<"true">>]
          [] Len(tok) = 1 /\ tok[1] \in DOMAIN Atoi -> [kind |-> "int", val |-> Atoi[tok[1]]]
          [] OTHER -> Wrong

\* assign: the field named in the current section takes a value of its type.
Assign(st, key, v) ==
    LET f == <<st.section, key>> IN
    IF f \in Fields /\ v.kind = KindOf[f]
      THEN [st EXCEPT !.cfg[f] = v.val] ELSE [st EXCEPT !.ok = FALSE]

ParseLine(st, raw) ==
    LET line == Trim(raw)
        key  == Trim(Before(line, "="))
    IN  CASE ~st.ok \/ line = <<>> -> st
          [] st.ok /\ line # <<>> /\ line[1] = "#" -> st
          [] st.ok /\ line # <<>> /\ line[1] = "[" ->
               IF Len(line) = 3 /\ line[3] = "]"
                 THEN [st EXCEPT !.section = line[2]] ELSE [st EXCEPT !.ok = FALSE]
          [] OTHER ->
               IF "=" \in ToSet(line) /\ Len(key) = 1 /\ key[1] \notin {Q, "[", "]", "#"}
                 THEN Assign(st, key[1], ParseValue(Trim(After(line, "="))))
                 ELSE [st EXCEPT !.ok = FALSE]

\* parseTOML, over Default as Load does.
Load(text) == FoldLeft(ParseLine, [cfg |-> Default, section |-> "", ok |-> TRUE], text)

ValueText(f, v) ==
    CASE KindOf[f] = "string" -> Quote(v)
      [] KindOf[f] = "int"    -> <<CHOOSE n \in DOMAIN Atoi : Atoi[n] = v>>
      [] KindOf[f] = "bool"   -> IF v THEN <<"true">> ELSE <<"false">>

Marshal(c) ==
    FlattenSeq([i \in DOMAIN Layout |->
        LET f == Field(Layout[i])
            header == IF f[1] # "" /\ Layout[i - 1][1] # f[1]
                        THEN << <<>>, <<"[", f[1], "]">> >> ELSE <<>>
        IN  header \o << <<f[2], SP, "=", SP>> \o ValueText(f, c[f]) >>])

\* What an operator may add to the file by hand: a comment on a line of its own,
\* or one after a value.
Comment == <<SP, "#", "=", SP, Q>>
Annotated(text) ==
    {text} \cup {InsertAt(text, i, Comment) : i \in DOMAIN text}
    \cup {ReplaceAt(text, i, text[i] \o Comment) :
            i \in {j \in DOMAIN text : "=" \in ToSet(text[j])}}

SaveAndLoad ==
    /\ stage = "new"
    /\ \E text \in Annotated(Marshal(cfg)) :
         LET read == Load(text) IN
         /\ cfg' = read.cfg
         /\ stage' = IF read.ok THEN "loaded" ELSE "refused"
    /\ UNCHANGED <<conf, peer, dial>>

-----------------------------------------------------------------------------
(* Validate, and what `ubo run` writes for unlock. *)

Masks == {<<"/", "3">>, <<"/", "3", "2">>, <<"/", "2", "4">>}
IsCIDR(s) == s # <<>> /\ s[1] \in DOMAIN NetOf /\ Tail(s) \in Masks

\* The network of the CIDR s contains the address ip.  A /3 is taken to contain
\* every address of its family.
Covers(s, ip) ==
    /\ (s[1] \in IPv6) = (ip \in IPv6)
    /\ Tail(s) = <<"/", "2", "4">> => NetOf[s[1]] = NetOf[ip]
    /\ Tail(s) = <<"/", "3", "2">> =>
         s[1] = ip \/ (ip \in IPv6 /\ NetOf[s[1]] = NetOf[ip])

ValidPort(n) == 0 < n /\ n <= 65535

\* Of the characters luksDevicePattern admits, those the codec treats apart, and a
\* letter and digits for the others.
LuksChars == {"a", "/", ":", "="} \cup DOMAIN Atoi

Valid(c) ==
    LET server == c[<<"wireguard", "server_ip">>]
        client == c[<<"wireguard", "client_ip">>]
        luks   == c[<<"luks", "device">>]
    IN  /\ c[<<"", "host">>] # <<>>
        /\ c[<<"ssh", "user">>] # <<>>
        /\ \A s \in {"ssh", "wireguard", "dropbear"} : ValidPort(c[<<s, "port">>])
        /\ IsCIDR(server) /\ IsCIDR(client)
        /\ server[1] # client[1] /\ Covers(server, client[1])
        /\ luks = <<>> \/ (Len(luks) > 1 /\ luks[1] = "/dev/" /\ ToSet(Tail(luks)) \subseteq LuksChars)

Itoa(n) == CHOOSE t \in DOMAIN Atoi : Atoi[t] = n
ServerTunnelIP(c) == c[<<"wireguard", "server_ip">>][1]

\* Mutant: an IPv6 host is not bracketed.
BareEndpoint(host, port) == host \o <<":", Itoa(port)>>

WGEndpoint(host, port) ==
    (IF ToSet(host) \cap IPv6 # {} THEN <<"[">> \o host \o <<"]">> ELSE host)
        \o <<":", Itoa(port)>>

\* Mutant: the client's own address is the one routed into the tunnel.
AllowedOwnIP(c) == <<c[<<"wireguard", "client_ip">>][1], "/", "3", "2">>

AllowedIPs(c) == <<ServerTunnelIP(c), "/", "3", "2">>

INI(key, value) == <<key, SP, "=", SP>> \o value
ClientConf(c) ==
    << <<"[", "Interface", "]">>,
       INI("PrivateKey", <<"client key", "=">>),
       INI("Address", c[<<"wireguard", "client_ip">>]),
       <<>>,
       <<"[", "Peer", "]">>,
       INI("PublicKey", <<"server key", "=">>),
       INI("Endpoint", WGEndpoint(c[<<"", "host">>], c[<<"wireguard", "port">>])),
       INI("AllowedIPs", AllowedIPs(c)),
       INI("PersistentKeepalive", <<"25">>) >>

WriteClientConf ==
    /\ stage = "loaded"
    /\ IF Valid(cfg) THEN conf' = ClientConf(cfg) /\ stage' = "written"
                     ELSE stage' = "refused" /\ UNCHANGED conf
    /\ UNCHANGED <<cfg, peer, dial>>

\* os.WriteFile writes in place: the file may end anywhere.
CutShort ==
    /\ stage = "written" /\ conf = ClientConf(cfg)
    /\ \E n \in DOMAIN conf : \E k \in 0..Len(conf[n]) :
         conf' = SubSeq(conf, 1, n - 1) \o <<SubSeq(conf[n], 1, k)>>
    /\ UNCHANGED <<cfg, peer, dial, stage>>

-----------------------------------------------------------------------------
(* What `ubo unlock` makes of it. *)

PeerFields == {"PrivateKey", "Address", "PublicKey", "Endpoint", "AllowedIPs"}
NoPeer == [f \in PeerFields |-> <<>>]

\* Mutant: unknown keys are kept as well.
ApplyAnyLine(p, raw) ==
    LET key == Trim(Before(raw, "="))
    IN  IF "=" \notin ToSet(raw) \/ Len(key) # 1 THEN p
        ELSE (key[1] :> Trim(After(raw, "="))) @@ p

ApplyWGLine(p, raw) ==
    LET line == Trim(raw)
        key  == Trim(Before(line, "="))
    IN  IF line = <<>> \/ Head(line) \in {"#", "["} \/ "=" \notin ToSet(line)
             \/ Len(key) # 1 \/ key[1] \notin PeerFields
        THEN p
        ELSE [p EXCEPT ![key[1]] = Trim(After(line, "="))]

ParseWGConfig(text) == FoldLeft(ApplyWGLine, NoPeer, text)

ParseClientConf ==
    /\ stage = "written"
    /\ peer' = ParseWGConfig(conf)
    /\ stage' = IF \E f \in PeerFields : peer'[f] = <<>> THEN "refused" ELSE "parsed"
    /\ UNCHANGED <<cfg, conf, dial>>

\* netip.ParseAddrPort: an IPv6 address must be bracketed, nothing else may.
NoAddr == [ip |-> "", port |-> 0]
ParseAddrPort(s) ==
    CASE Len(s) = 3 /\ s[1] \in DOMAIN NetOf \ IPv6 /\ s[2] = ":" ->
           [ip |-> s[1], port |-> Atoi[s[3]]]
      [] Len(s) = 5 /\ s[1] = "[" /\ s[2] \in IPv6 /\ s[3] = "]" /\ s[4] = ":" ->
           [ip |-> s[2], port |-> Atoi[s[5]]]
      [] OTHER -> NoAddr

\* The wireguard-go device takes both keys whole, an endpoint that is an
\* address (its bind resolves no names) and a prefix.
DeviceAccepts(p) ==
    /\ \A f \in {"PrivateKey", "PublicKey"} : Len(p[f]) = 2
    /\ ParseAddrPort(p["Endpoint"]) # NoAddr
    /\ IsCIDR(p["AllowedIPs"])
    /\ IsCIDR(p["Address"]) \/ (Len(p["Address"]) = 1 /\ p["Address"][1] \in DOMAIN NetOf)

\* Unlock formats the server's address without brackets.
ServerAddr(c) == ParseAddrPort(<<ServerTunnelIP(c), ":", Itoa(c[<<"dropbear", "port">>])>>)

SetupDevice ==
    /\ stage = "parsed"
    /\ IF DeviceAccepts(peer) /\ ServerAddr(cfg) # NoAddr
         THEN stage' = "up" /\ dial' = ServerAddr(cfg)
         ELSE stage' = "refused" /\ UNCHANGED dial
    /\ UNCHANGED <<cfg, conf, peer>>

-----------------------------------------------------------------------------

Init ==
    /\ cfg \in Configs
    /\ conf = <<>> /\ peer = NoPeer /\ dial = NoAddr
    /\ stage = "new"

\* One configuration goes its way once.
Finished == stage \in {"up", "refused"} /\ UNCHANGED vars

Next ==
    \/ SaveAndLoad \/ WriteClientConf \/ CutShort \/ ParseClientConf \/ SetupDevice
    \/ Finished

Spec == Init /\ [][Next]_vars

-----------------------------------------------------------------------------
(* Properties. *)

TypeOK ==
    /\ DOMAIN cfg = Fields
    /\ conf \in Seq(Seq(Tokens))
    /\ peer \in [PeerFields -> Seq(Tokens)]
    /\ dial \in [ip : DOMAIN NetOf, port : Int] \cup {NoAddr}
    /\ stage \in {"new", "loaded", "written", "parsed", "up", "refused"}

\* Every configuration that is saved is loaded again exactly as it was (toml.go:307,
\* "that Load can round-trip"), whatever its strings hold, and comments added by
\* hand change nothing: `ubo configure` must not lose the fields it does not show.
SavedIsLoaded == [][stage = "new" => stage' = "loaded" /\ cfg' = cfg]_vars

\* A tunnel that comes up, be it from a client_wg.conf that was cut short, leads
\* to the configured server, carries the traffic to Dropbear (WireGuard drops
\* what AllowedIPs does not cover), and the server has a way back (config.go:127).
TunnelLeadsToServer ==
    stage = "up" =>
        LET end == ParseAddrPort(peer["Endpoint"]) IN
        /\ end.ip \in ToSet(cfg[<<"", "host">>])
        /\ end.port = cfg[<<"wireguard", "port">>]
        /\ Covers(peer["AllowedIPs"], dial.ip)
        /\ dial.port = cfg[<<"dropbear", "port">>]
        /\ Covers(cfg[<<"wireguard", "server_ip">>], peer["Address"][1])
        /\ peer["Address"][1] # dial.ip

\* What Validate lets through is not refused by unlock, long after the server was
\* set up with it.  Only for a host given as a plain IP address and an IPv4 tunnel:
\* names, "[::1]" (which OutputDir provides for) and IPv6 tunnels are refused
\* at unlock (rootless.go:76, 108).
ValidatedComesUp ==
    (stage = "refused" /\ Valid(cfg) /\ conf = ClientConf(cfg)) =>
        \/ ~ (Len(cfg[<<"", "host">>]) = 1 /\ cfg[<<"", "host">>][1] \in DOMAIN NetOf)
        \/ ServerTunnelIP(cfg) \in IPv6
=============================================================================
