----------------------------- MODULE Addresses -----------------------------
(***************************************************************************)
(* The net allowlist and the addresses a script must not reach without     *)
(* --allow-private (policy.rs).  An IPv4 address is its four octets, an    *)
(* IPv6 address its eight segments of 16 bits.                             *)
(***************************************************************************)
EXTENDS Integers, Sequences, FiniteSets

V4Address == {ip \in Seq(0 .. 255) : Len(ip) = 4}
Segment == 0 .. 65535
V6Address == {ip \in Seq(Segment) : Len(ip) = 8}

(* x & mask = v, for a mask of the leading bits that leave 2^free values.  *)
Leading(x, size, v) == (x \div size) * size = v

(* is_private_v4; the standard library's loopback, private, link-local and *)
(* multicast ranges with it.                                               *)
is_private_v4(ip) ==
    LET a == ip[1]
        b == ip[2]
        c == ip[3] IN
    \/ a \in {0, 10, 127}
    \/ a = 172 /\ Leading(b, 16, 16)
    \/ a = 192 /\ b = 168
    \/ a = 169 /\ b = 254
    \/ a = 100 /\ Leading(b, 64, 64)
    \/ a = 192 /\ b = 0 /\ c = 0
    \/ a = 198 /\ Leading(b, 2, 18)
    \/ a >= 224

Zeros(s, from, to) == \A i \in from .. to : s[i] = 0

Octets(hi, lo) == <<hi \div 256, hi % 256, lo \div 256, lo % 256>>

NotEmbedded == <<>>

(* embedded_ipv4: mapped and compatible, NAT64, 6to4. *)
embedded_ipv4(s) ==
    CASE Zeros(s, 1, 5) /\ s[6] \in {0, 65535} -> Octets(s[7], s[8])
      [] s[1] = 100 /\ s[2] = 65435 /\ Zeros(s, 3, 6) -> Octets(s[7], s[8])
      [] s[1] = 8194 -> Octets(s[2], s[3])
      [] OTHER -> NotEmbedded

(* Mutant: the embedded address alone is judged. *)
ByEmbedded(s) == embedded_ipv4(s) # NotEmbedded /\ is_private_v4(embedded_ipv4(s))

(* is_private_v6: 64512 is fc00, 65152 fe80, 65216 fec0, 65280 ff00. *)
is_private_v6(s) ==
    IF Zeros(s, 1, 7) /\ s[8] \in {0, 1}
    THEN TRUE
    ELSE IF embedded_ipv4(s) # NotEmbedded
    THEN is_private_v4(embedded_ipv4(s))
    ELSE \/ Leading(s[1], 512, 64512)
         \/ Leading(s[1], 64, 65152) \/ Leading(s[1], 64, 65216)
         \/ s[1] = 100 /\ s[2] = 65435 /\ s[3] = 1
         \/ Leading(s[1], 256, 65280)

(* is_private_ip *)
is_private_ip(ip) == IF Len(ip) = 4 THEN is_private_v4(ip) ELSE is_private_v6(ip)

-----------------------------------------------------------------------------
(* The ranges of the comments (policy.rs:306-366), by the first and the    *)
(* last address; the last octet of an IPv4 address tells nothing.          *)
UpTo(p, q) ==
    \/ p[1] < q[1]
    \/ p[1] = q[1] /\ p[2] < q[2]
    \/ p[1] = q[1] /\ p[2] = q[2] /\ p[3] <= q[3]

Listed4(ip) ==
    LET In(first, last) == UpTo(first, ip) /\ UpTo(ip, last) IN
    \/ In(<<0, 0, 0>>, <<0, 255, 255>>)            \* 0.0.0.0/8
    \/ In(<<10, 0, 0>>, <<10, 255, 255>>)          \* 10.0.0.0/8
    \/ In(<<127, 0, 0>>, <<127, 255, 255>>)        \* 127.0.0.0/8
    \/ In(<<172, 16, 0>>, <<172, 31, 255>>)        \* 172.16.0.0/12
    \/ In(<<192, 168, 0>>, <<192, 168, 255>>)      \* 192.168.0.0/16
    \/ In(<<169, 254, 0>>, <<169, 254, 255>>)      \* 169.254.0.0/16
    \/ In(<<100, 64, 0>>, <<100, 127, 255>>)       \* 100.64.0.0/10
    \/ In(<<192, 0, 0>>, <<192, 0, 0>>)            \* 192.0.0.0/24
    \/ In(<<198, 18, 0>>, <<198, 19, 255>>)        \* 198.18.0.0/15
    \/ In(<<224, 0, 0>>, <<239, 255, 255>>)        \* 224.0.0.0/4
    \/ In(<<240, 0, 0>>, <<255, 255, 255>>)        \* 240.0.0.0/4

(* The first segments of fc00::/7, fe80::/10, fec0::/10 and ff00::/8. *)
Listed6(s) ==
    \/ s[1] \in 64512 .. 65023 \cup 65152 .. 65215 \cup 65216 .. 65279 \cup 65280 .. 65535
    \/ <<s[1], s[2], s[3]>> = <<100, 65435, 1>>
    \/ Zeros(s, 1, 7) /\ s[8] \in {0, 1}

(* An address is refused exactly if it is in a listed range, or if the     *)
(* IPv4 address it stands for is, however it is embedded; nothing between  *)
(* two ranges is refused (policy.rs:242-266).                              *)
AsListed(ip) ==
    is_private_ip(ip) =
        IF Len(ip) = 4
        THEN Listed4(ip)
        ELSE Listed6(ip) \/ (embedded_ipv4(ip) # NotEmbedded /\ Listed4(embedded_ipv4(ip)))
=============================================================================
