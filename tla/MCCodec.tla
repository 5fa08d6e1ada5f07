------------------------------ MODULE MCCodec ------------------------------
(* An instance of Codec for TLC: one field at a time is varied. *)
EXTENDS Codec

Numerals == [n \in {"0", "22", "2222", "51820", "65535", "65536"} |->
    CASE n = "0" -> 0 [] n = "22" -> 22 [] n = "2222" -> 2222 [] n = "51820" -> 51820
      [] n = "65535" -> 65535 [] n = "65536" -> 65536]

Addresses == [a \in {"192.0.2.1", "2001:db8::1", "10.42.0.1", "10.42.0.2", "10.43.0.2",
                     "fd00::1", "fd00::2"} |->
    CASE a \in {"10.42.0.1", "10.42.0.2"} -> "10.42.0" [] a \in {"fd00::1", "fd00::2"} -> "fd00"
      [] OTHER -> a]
SixAddresses == {"2001:db8::1", "fd00::1", "fd00::2"}

\* Free text: an ordinary letter and every character the codec treats apart.
Characters == {"a", SP, "#", "=", "[", Q, B}
Free == {"a", "server.example"}
Short == SeqOf(Characters, 1) \cup {<<Q, "#">>, <<B, Q>>, <<SP, "a">>}
Long == SeqOf(Characters, 2) \cup [1..3 -> {"a", "#", Q, B}]

Base == [Default EXCEPT ![<<"", "host">>] = <<"192.0.2.1">>]
OfKind(k) == {f \in Fields : KindOf[f] = k}

Hosts == {<<"192.0.2.1">>, <<"2001:db8::1">>, <<"server.example">>, <<"[", "2001:db8::1", "]">>}
Tunnels == {"10.42.0.1", "10.42.0.2", "10.43.0.2", "fd00::1", "fd00::2"}
Prefixed == {<<ip>> \o m : ip \in Tunnels, m \in {<<"/", "2", "4">>, <<"/", "3", "2">>}}

Varied ==
    {[Base EXCEPT ![f] = t] : f \in OfKind("string"), t \in Short}
    \cup {[Base EXCEPT ![<<"ssh", "key">>] = t] : t \in Long}
    \cup {[Base EXCEPT ![f] = n] : f \in OfKind("int"), n \in {Numerals[t] : t \in DOMAIN Numerals}}
    \cup {[Base EXCEPT ![<<"ssh", "sudo">>] = TRUE,
                       ![<<"luks", "device">>] = <<"/dev/", "a", "/", "=", "22">>,
                       ![<<"output", "dir">>] = <<"a">>]}
    \cup {[Base EXCEPT ![<<"", "host">>] = h,
                       ![<<"wireguard", "server_ip">>] = s,
                       ![<<"wireguard", "client_ip">>] = c] :
            h \in Hosts, s \in Prefixed, c \in Prefixed}
=============================================================================
