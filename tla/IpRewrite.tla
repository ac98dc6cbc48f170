----------------------------- MODULE IpRewrite -----------------------------
(***************************************************************************)
(* Which packets the entries of the sorter taste, and how they rewrite     *)
(* them in place: an echo request becomes its reply (sin_ip4_icmp_req2rpl),*)
(* a UDP datagram goes back where it came from (sin_ip4_udp_mirror).       *)
(* Headers are sequences of words of W bits, as a little-endian processor  *)
(* loads them; sums wrap as they do in the code.                           *)
(***************************************************************************)
EXTENDS Integers, Sequences

CONSTANTS W,        \* bits of a word; 16 in the code
          EchoReq,  \* htons(0x0800): the type of an echo request, in its word
          TypeM,    \* what the type counts to, below the code of the message
          PortMin, PortMax,    \* struct udpm_params
          Rests     \* what all header fields the code leaves alone may add up to

M == 2 ^ W
Word == 0 .. M - 1

ASSUME IpRewriteAssumption ==
    /\ W \in Nat \ {0} /\ Rests \subseteq Word /\ PortMin \in Word /\ PortMax \in Word
    /\ TypeM \in Word /\ EchoReq \in 1 .. TypeM - 1

\* A word is wide enough for the carries of the sums below; 2^16 in the code
ASSUME WordAssumption == M \in Nat /\ M > 4

VARIABLES pkt,   \* the packet: length, what the tastes look at, both headers
          done   \* it has been rewritten

irVars == <<pkt, done>>

-----------------------------------------------------------------------------
(* The one's complement sum of RFC 1071, to judge checksums by             *)

EndAroundAdd(a, b) == IF a + b < M THEN a + b ELSE a + b - M + 1
OnesSum(ws) ==
    LET sum[n \in 0 .. Len(ws)] == IF n = 0 THEN 0 ELSE EndAroundAdd(sum[n - 1], ws[n])
    IN  sum[Len(ws)]
SumsUp(ws) == OnesSum(ws) = M - 1

-----------------------------------------------------------------------------
(* The code                                                                *)

\* The sum of the words, which is far from the width of its variable
Total(ws) == LET sum[n \in 0 .. Len(ws)] == IF n = 0 THEN 0 ELSE sum[n - 1] + ws[n]
             IN  sum[Len(ws)]

\* The carries are folded back, twice
Fold(sum) == LET s == (sum \div M) + (sum % M) IN s + (s \div M)

\* sin_ip4_cksum: sum, fold, complement and truncate
sin_ip4_cksum(ws) == M - 1 - (Fold(Total(ws)) % M)

\* The macros the mirror sums a datagram with in the debugging build; an odd
\* last byte counts as the low half of a word
sin_ip_chksum(ws) == sin_ip4_cksum(ws)

IpWords(p) == <<p.rest, p.sum, p.src, p.dst>>
IcmpWords(p) == <<p.type, p.data, p.cksum>>

\* The words the UDP sum covers, without the sum: the pseudo header counts
\* the length a second time, here in data
UdpWords(p) == <<p.src, p.dst, p.sport, p.dport, p.data>>

IsEcho(p) == "type" \in DOMAIN p

\* A valid packet has arrived, which need not be one for us.  The length is at
\* either side of the two minima; ip4 stands for the ether type and the
\* version.  Bound: the addresses of those that fail these are 0.
IrInit ==
    /\ done = FALSE
    /\ \E len \in {41, 42, 49, 50}, ip4 \in BOOLEAN, proto \in {1, 6, 17} :
         LET Addrs == IF ip4 /\ len = 50 /\ proto # 6 THEN Word ELSE {0} IN
         \E rest \in Rests, sum \in Word, src \in Addrs, dst \in Addrs :
           /\ SumsUp(<<rest, sum, src, dst>>)
           /\ \/ /\ proto = 1
                 /\ \E type \in Word, data \in Addrs, cksum \in Word :
                      /\ SumsUp(<<type, data, cksum>>)
                      /\ pkt = [len |-> len, ip4 |-> ip4, proto |-> proto,
                                rest |-> rest, sum |-> sum, src |-> src, dst |-> dst,
                                type |-> type, data |-> data, cksum |-> cksum]
              \/ /\ proto # 1
                 /\ \E sport \in Word, dport \in Word, data \in Rests, cksum \in Word :
                      /\ cksum = 0 \/ SumsUp(<<src, dst, sport, dport, data, cksum>>)
                      /\ pkt = [len |-> len, ip4 |-> ip4, proto |-> proto,
                                rest |-> rest, sum |-> sum, src |-> src, dst |-> dst,
                                sport |-> sport, dport |-> dport, data |-> data, cksum |-> cksum]

\* sin_ip4_icmp_taste and sin_ip4_icmp_repl_taste, apart from the type
IcmpTaste(p, type) == p.len >= 50 /\ p.ip4 /\ p.proto = 1 /\ p.type % TypeM = type

sin_ip4_icmp_taste(p) == IcmpTaste(p, EchoReq)
sin_ip4_icmp_repl_taste(p) == IcmpTaste(p, 0)

InRange(port) == port >= PortMin /\ port <= PortMax

\* udpm_taste.  The length of a valid datagram covers its header.
udpm_taste(p) ==
    /\ p.len >= 42 /\ p.ip4 /\ p.proto = 17
    /\ InRange(p.dport) /\ InRange(p.sport)

SwapAddrs(p) == [p EXCEPT !.src = p.dst, !.dst = p.src]

\* (faulty: the sum of the message is not updated)
RewriteEchoOldSum ==
    /\ ~done /\ sin_ip4_icmp_taste(pkt)
    /\ done' = TRUE
    /\ pkt' = [SwapAddrs(pkt) EXCEPT !.sum = sin_ip4_cksum(IpWords(SwapAddrs(pkt))),
                                     !.type = @ - EchoReq]

\* (faulty: the type is left)
RewriteEchoOldType ==
    /\ ~done /\ sin_ip4_icmp_taste(pkt)
    /\ done' = TRUE
    /\ pkt' = [SwapAddrs(pkt) EXCEPT !.sum = sin_ip4_cksum(IpWords(SwapAddrs(pkt))),
                                     !.cksum = (@ + EchoReq) % M]

\* The sum is computed over the header as it is, with the old sum in it
RewriteEcho ==
    /\ ~done /\ sin_ip4_icmp_taste(pkt)
    /\ done' = TRUE
    /\ pkt' = [SwapAddrs(pkt) EXCEPT !.sum = sin_ip4_cksum(IpWords(SwapAddrs(pkt))),
                                     !.type = @ - EchoReq,
                                     !.cksum = (@ + EchoReq) % M]

\* (faulty: the sum in the debugging build covers the old sum)
MirrorDebugOverSum ==
    LET q == [SwapAddrs(pkt) EXCEPT !.sport = pkt.dport, !.dport = pkt.sport] IN
    /\ ~done /\ udpm_taste(pkt)
    /\ done' = TRUE
    /\ \/ pkt' = q
       \/ pkt' = [q EXCEPT !.sum = sin_ip4_cksum(IpWords(q)),
                           !.cksum = sin_ip_chksum(UdpWords(q))]

\* With SIN_DEBUG both sums are computed afresh, else they are left as they are
Mirror ==
    LET q == [SwapAddrs(pkt) EXCEPT !.sport = pkt.dport, !.dport = pkt.sport] IN
    /\ ~done /\ udpm_taste(pkt)
    /\ done' = TRUE
    /\ \/ pkt' = q
       \/ pkt' = [q EXCEPT !.sum = sin_ip4_cksum(IpWords([q EXCEPT !.sum = 0])),
                           !.cksum = sin_ip_chksum(UdpWords(q))]

IrSpec == IrInit /\ [][RewriteEcho \/ Mirror]_irVars

-----------------------------------------------------------------------------
(* Properties                                                              *)

\* A mirrored datagram is valid: both sums are right for the swapped
\* addresses and ports, whether the build computes them or leaves them alone.
MirroredValid ==
    done /\ ~IsEcho(pkt)
        => SumsUp(IpWords(pkt)) /\ (pkt.cksum = 0 \/ SumsUp(UdpWords(pkt) \o <<pkt.cksum>>))

\* The sum of an ICMP reply, which sin_ip4_icmp_req2rpl updates by adding what
\* the type has lost, is right if and only if the addition does not carry
\* out of the word.
EchoSumOffByCarry ==
    [][RewriteEcho => (SumsUp(IcmpWords(pkt')) <=> pkt.cksum + EchoReq < M)]_irVars

\* An exchange ends with the reply: what has been answered is a reply for
\* whoever gets it, and no entry of a sorter takes it again.
EchoEnds ==
    done /\ IsEcho(pkt) =>
        sin_ip4_icmp_repl_taste(pkt) /\ ~sin_ip4_icmp_taste(pkt) /\ ~udpm_taste(pkt)

\* The header of an echo reply has a valid sum.
ReplyHeaderValid == done /\ IsEcho(pkt) => SumsUp(IpWords(pkt))
=============================================================================
