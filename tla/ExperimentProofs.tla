-------------------------- MODULE ExperimentProofs --------------------------
(***************************************************************************)
(* Theorems about the experiments.                                         *)
(***************************************************************************)
EXTENDS Experiment, TLAPS

-----------------------------------------------------------------------------
(* The stages of the programs *)

\* The life st of a gateway or receiver: the stage c, at which it claims its
\* queue or ports, is the q-th, and those between are silent.
Shape(st, c, q) ==
  /\ q \in Nat /\ q >= 3
  /\ DOMAIN st = 1 .. q + 8
  /\ st[1] = "shell" /\ st[2] = "options" /\ st[q] = c
  /\ \A k \in 3 .. q - 1 : st[k] \in Silent
  /\ st[q + 1] \in Silent
  /\ st[q + 2] = "signals" /\ st[q + 3] = "test" /\ st[q + 4] = "about"
  /\ st[q + 5] = "wait" /\ st[q + 6] = "statistics"
  /\ st[q + 7] = "summary" /\ st[q + 8] = "release"

Stage == {"shell", "options", "queue", "ports", "bind", "signals", "test",
          "about", "wait", "statistics", "summary", "release"} \cup Silent

\* u is s, of length m, followed by t, of length k.
Joined(S, u, s, m, t, k) ==
  /\ u \in Seq(S) /\ Len(u) = m + k /\ DOMAIN u = 1 .. m + k
  /\ \A i \in 1 .. m : u[i] = s[i]
  /\ \A i \in 1 .. k : u[m + i] = t[i]

\* What a concatenation holds: first its left part, then its right part.
LEMMA Concat ==
  ASSUME NEW S, NEW s \in Seq(S), NEW t \in Seq(S),
         NEW m \in Nat, NEW k \in Nat, Len(s) = m, Len(t) = k
  PROVE  Joined(S, s \o t, s, m, t, k)
  BY DEF Joined

\* What is always passed before the claim: the options, then silent stages.
Head1(h) ==
  /\ h \in Seq(Stage) /\ Len(h) >= 1 /\ h[1] = "options"
  /\ \A k \in 2 .. Len(h) : h[k] \in Silent

\* The options alone are a head.
LEMMA HeadBegins == Head1(<<"options">>)
<1>1. <<"options">> \in Seq(Stage) /\ Len(<<"options">>) = 1
  BY DEF Stage
<1> QED  BY <1>1 DEF Head1

\* A silent stage, or none, put after a head gives a head (the optional
\* steps of the gateway's and the receiver's main).
LEMMA HeadGrows ==
  ASSUME NEW h, Head1(h), NEW x \in {<<>>} \cup {<<s>> : s \in Silent}
  PROVE  Head1(h \o x)
<1>1. h \in Seq(Stage) /\ Len(h) \in Nat /\ Len(h) >= 1
  BY DEF Head1
<1>2. /\ x \in Seq(Stage) /\ Len(x) \in 0 .. 1
      /\ \A i \in 1 .. Len(x) : x[i] \in Silent
  <2>1. CASE x = <<>>
    BY <2>1
  <2>2. CASE x \in {<<s>> : s \in Silent}
    <3>1. PICK s \in Silent : x = <<s>>
      BY <2>2
    <3> QED  BY <3>1 DEF Stage
  <2> QED  BY <2>1, <2>2
<1>3. /\ h \o x \in Seq(Stage) /\ Len(h \o x) = Len(h) + Len(x)
      /\ \A i \in 1 .. Len(h) : (h \o x)[i] = h[i]
      /\ \A i \in 1 .. Len(x) : (h \o x)[Len(h) + i] = x[i]
  <2>1. Len(x) \in Nat
    BY <1>2
  <2>2. Joined(Stage, h \o x, h, Len(h), x, Len(x))
    BY <1>1, <1>2, <2>1, Concat
  <2> QED  BY <2>2 DEF Joined
<1>4. ASSUME NEW k \in 2 .. Len(h \o x)
      PROVE  (h \o x)[k] \in Silent
  <2>1. CASE k <= Len(h)
    BY <1>1, <1>3, <2>1 DEF Head1
  <2>2. CASE k > Len(h)
    <3>1. k - Len(h) \in 1 .. Len(x) /\ k = Len(h) + (k - Len(h))
      BY <1>1, <1>2, <1>3, <2>2
    <3> QED  BY <1>2, <1>3, <3>1
  <2> QED  BY <1>1, <2>1, <2>2
<1> QED  BY <1>1, <1>2, <1>3, <1>4 DEF Head1

\* The life with the start-up s: shell, s, loop and end.
Around(s) == ((<<"shell">> \o s) \o <<"test", "about", "wait">>)
               \o ((<<"statistics">> \o <<"summary">>) \o <<"release">>)

\* What Around puts about a start-up s: the shell before it, and the test,
\* the service and the way out behind it.
LEMMA LifeShape ==
  ASSUME NEW h, Head1(h), NEW s \in Seq(Stage), NEW n \in Nat, NEW c,
         n > Len(h), Len(s) = n + 2,
         \A i \in 1 .. Len(h) : s[i] = h[i],
         \A i \in Len(h) + 1 .. n - 1 : s[i] \in Silent,
         s[n] = c, s[n + 1] \in Silent, s[n + 2] = "signals"
  PROVE  Shape(Around(s), c, n + 1)
<1> DEFINE sh == <<"shell">>
           a1 == sh \o s
           lp == <<"test", "about", "wait">>
           a2 == a1 \o lp
           sc == <<"statistics">>
           sy == <<"summary">>
           rl == <<"release">>
           e1 == sc \o sy
           en == e1 \o rl
           st == a2 \o en
<1>0. Len(h) \in Nat /\ Len(h) >= 1 /\ h[1] = "options"
      /\ \A k \in 2 .. Len(h) : h[k] \in Silent
  BY DEF Head1
<1>1. sh \in Seq(Stage) /\ Len(sh) = 1 /\ sh[1] = "shell"
  BY DEF Stage
<1>3. lp \in Seq(Stage) /\ Len(lp) = 3
      /\ lp[1] = "test" /\ lp[2] = "about" /\ lp[3] = "wait"
  BY DEF Stage
<1>6. /\ sc \in Seq(Stage) /\ Len(sc) = 1 /\ sc[1] = "statistics"
      /\ sy \in Seq(Stage) /\ Len(sy) = 1 /\ sy[1] = "summary"
      /\ rl \in Seq(Stage) /\ Len(rl) = 1 /\ rl[1] = "release"
  BY DEF Stage
<1>17. Around(s) = st
  BY DEF Around
<1> HIDE DEF sh, lp, sc, sy, rl
<1>2. /\ a1 \in Seq(Stage) /\ Len(a1) = n + 3 /\ a1[1] = "shell"
      /\ \A i \in 1 .. n + 2 : a1[1 + i] = s[i]
  <2>1. n + 2 \in Nat /\ 1 \in Nat /\ 1 + (n + 2) = n + 3 /\ 1 \in 1 .. 1
    OBVIOUS
  <2>2. Joined(Stage, a1, sh, 1, s, n + 2)
    BY <1>1, <2>1, Concat
  <2> HIDE DEF a1
  <2> QED  BY <1>1, <2>1, <2>2 DEF Joined
<1> HIDE DEF a1
<1>4. /\ a2 \in Seq(Stage) /\ Len(a2) = n + 6
      /\ \A i \in 1 .. n + 3 : a2[i] = a1[i]
      /\ \A i \in 1 .. 3 : a2[n + 3 + i] = lp[i]
  <2>1. n + 3 \in Nat /\ 3 \in Nat /\ (n + 3) + 3 = n + 6
    OBVIOUS
  <2>2. Joined(Stage, a2, a1, n + 3, lp, 3)
    BY <1>2, <1>3, <2>1, Concat
  <2> HIDE DEF a2
  <2> QED  BY <2>1, <2>2 DEF Joined
<1> HIDE DEF a2
<1>5. a2[n + 4] = "test" /\ a2[n + 5] = "about" /\ a2[n + 6] = "wait"
  <2>1. a2[n + 3 + 1] = lp[1] /\ a2[n + 3 + 2] = lp[2]
        /\ a2[n + 3 + 3] = lp[3]
    BY <1>4
  <2>2. n + 3 + 1 = n + 4 /\ n + 3 + 2 = n + 5 /\ n + 3 + 3 = n + 6
    OBVIOUS
  <2> QED  BY <1>3, <2>1, <2>2
<1>7. /\ e1 \in Seq(Stage) /\ Len(e1) = 2
      /\ e1[1] = "statistics" /\ e1[2] = "summary"
  <2>1. Joined(Stage, e1, sc, 1, sy, 1)
    BY <1>6, Concat
  <2> HIDE DEF e1
  <2>2. e1[1] = sc[1] /\ e1[1 + 1] = sy[1]
    BY <2>1 DEF Joined
  <2> QED  BY <1>6, <2>1, <2>2 DEF Joined
<1> HIDE DEF e1
<1>8. /\ en \in Seq(Stage) /\ Len(en) = 3
      /\ en[1] = "statistics" /\ en[2] = "summary" /\ en[3] = "release"
  <2>1. Joined(Stage, en, e1, 2, rl, 1)
    BY <1>6, <1>7, Concat
  <2> HIDE DEF en
  <2>2. en[1] = e1[1] /\ en[2] = e1[2] /\ en[2 + 1] = rl[1]
    BY <2>1 DEF Joined
  <2> QED  BY <1>6, <1>7, <2>1, <2>2 DEF Joined
<1> HIDE DEF en
<1>9. /\ DOMAIN st = 1 .. n + 9
      /\ \A i \in 1 .. n + 6 : st[i] = a2[i]
      /\ st[n + 7] = "statistics" /\ st[n + 8] = "summary"
      /\ st[n + 9] = "release"
  <2>1. n + 6 \in Nat /\ (n + 6) + 3 = n + 9 /\ (n + 6) + 1 = n + 7
        /\ (n + 6) + 2 = n + 8
    OBVIOUS
  <2>2. Joined(Stage, st, a2, n + 6, en, 3)
    BY <1>4, <1>8, <2>1, Concat
  <2> HIDE DEF st
  <2>3. st[(n + 6) + 1] = en[1] /\ st[(n + 6) + 2] = en[2]
        /\ st[(n + 6) + 3] = en[3]
    BY <2>2 DEF Joined
  <2> QED  BY <1>8, <2>1, <2>2, <2>3 DEF Joined
<1> HIDE DEF st
<1>10. \A i \in 1 .. n + 2 : st[1 + i] = s[i]
  <2>1. \A i \in 1 .. n + 2 : 1 + i \in 1 .. n + 3 /\ 1 + i \in 1 .. n + 6
    OBVIOUS
  <2> QED  BY <1>2, <1>4, <1>9, <2>1
<1>11. st[1] = "shell"
  BY <1>2, <1>4, <1>9
<1>12. st[n + 4] = "test" /\ st[n + 5] = "about" /\ st[n + 6] = "wait"
  BY <1>5, <1>9
<1>13. st[n + 7] = "statistics" /\ st[n + 8] = "summary"
       /\ st[n + 9] = "release"
  BY <1>9
<1>14. st[2] = "options"
  BY <1>0, <1>10
<1>15. /\ st[n + 1] = c /\ st[n + 2] \in Silent /\ st[n + 3] = "signals"
  <2>1. st[1 + n] = c /\ st[1 + (n + 1)] \in Silent
        /\ st[1 + (n + 2)] = "signals"
    BY <1>0, <1>10
  <2> QED  BY <2>1
<1>16. ASSUME NEW k \in 3 .. n
       PROVE  st[k] \in Silent
  <2>1. k - 1 \in 1 .. n + 2 /\ 1 + (k - 1) = k /\ k - 1 \in 2 .. n - 1
    BY <1>0
  <2>2. st[k] = s[k - 1]
    BY <1>10, <2>1
  <2>3. CASE k - 1 <= Len(h)
    BY <1>0, <2>1, <2>2, <2>3
  <2>4. CASE k - 1 > Len(h)
    BY <1>0, <2>1, <2>2, <2>4
  <2> QED  BY <1>0, <2>1, <2>3, <2>4
<1>18. /\ n + 1 \in Nat /\ n + 1 >= 3 /\ (n + 1) + 8 = n + 9
       /\ (n + 1) - 1 = n /\ (n + 1) + 1 = n + 2 /\ (n + 1) + 2 = n + 3
       /\ (n + 1) + 3 = n + 4 /\ (n + 1) + 4 = n + 5 /\ (n + 1) + 5 = n + 6
       /\ (n + 1) + 6 = n + 7 /\ (n + 1) + 7 = n + 8
  BY <1>0
<1>19. Shape(st, c, n + 1)
  BY <1>9, <1>11, <1>12, <1>13, <1>14, <1>15, <1>16, <1>18 DEF Shape
<1> QED  BY <1>17, <1>19 DEF st

\* The gateways open the queue before they claim it, and ask for whole
\* packets after.
LEMMA GatewayShape ==
  ASSUME NEW h, Head1(h)
  PROVE  Shape(Around((h \o <<"open", "queue", "mode">>) \o <<"signals">>),
               "queue", Len(h) + 3)
<1> DEFINE qu == <<"open", "queue", "mode">>
           sg == <<"signals">>
           s1 == h \o qu
           s == s1 \o sg
           n == Len(h) + 2
<1>1. h \in Seq(Stage) /\ Len(h) \in Nat /\ Len(h) >= 1
  BY DEF Head1
<1>2. /\ qu \in Seq(Stage) /\ Len(qu) = 3
      /\ qu[1] = "open" /\ qu[2] = "queue" /\ qu[3] = "mode"
      /\ sg \in Seq(Stage) /\ Len(sg) = 1 /\ sg[1] = "signals"
  BY DEF Stage, Silent
<1> HIDE DEF qu, sg
<1>3. Joined(Stage, s1, h, Len(h), qu, 3)
  BY <1>1, <1>2, Concat
<1> HIDE DEF s1
<1>4. s1 \in Seq(Stage) /\ Len(s1) = Len(h) + 3 /\ Len(h) + 3 \in Nat
  BY <1>1, <1>3 DEF Joined
<1>5. Joined(Stage, s, s1, Len(h) + 3, sg, 1)
  BY <1>2, <1>4, Concat
<1> HIDE DEF s
<1>6. /\ s[Len(h) + 1] = "open" /\ s[Len(h) + 2] = "queue"
      /\ s[Len(h) + 3] = "mode" /\ s[(Len(h) + 3) + 1] = "signals"
  <2>1. /\ s1[Len(h) + 1] = qu[1] /\ s1[Len(h) + 2] = qu[2]
        /\ s1[Len(h) + 3] = qu[3]
    BY <1>3 DEF Joined
  <2>2. /\ s[Len(h) + 1] = s1[Len(h) + 1] /\ s[Len(h) + 2] = s1[Len(h) + 2]
        /\ s[Len(h) + 3] = s1[Len(h) + 3]
    BY <1>1, <1>5 DEF Joined
  <2>3. s[(Len(h) + 3) + 1] = sg[1]
    BY <1>5 DEF Joined
  <2> QED  BY <1>2, <2>1, <2>2, <2>3
<1>7. \A i \in 1 .. Len(h) : s[i] = h[i]
  <2>1. \A i \in 1 .. Len(h) : s1[i] = h[i]
    BY <1>3 DEF Joined
  <2>2. \A i \in 1 .. Len(h) + 3 : s[i] = s1[i]
    BY <1>5 DEF Joined
  <2> QED  BY <1>1, <2>1, <2>2
<1>8. s \in Seq(Stage) /\ Len(s) = n + 2
  BY <1>1, <1>5 DEF Joined
<1>9. \A i \in Len(h) + 1 .. n - 1 : s[i] \in Silent
  <2>1. \A i \in Len(h) + 1 .. n - 1 : i = Len(h) + 1
    BY <1>1
  <2> QED  BY <1>6, <2>1 DEF Silent
<1>10. s[n] = "queue" /\ s[n + 1] \in Silent /\ s[n + 2] = "signals"
       /\ n \in Nat /\ n > Len(h) /\ n + 1 = Len(h) + 3
  <2>1. n + 1 = Len(h) + 3 /\ n + 2 = (Len(h) + 3) + 1
    BY <1>1
  <2>2. s[n + 2] = s[(Len(h) + 3) + 1] /\ s[n + 1] = s[Len(h) + 3]
    BY <2>1
  <2>3. n \in Nat /\ n > Len(h)
    BY <1>1
  <2> QED  BY <1>6, <2>1, <2>2, <2>3 DEF Silent
<1> HIDE DEF n
<1>11. Shape(Around(s), "queue", n + 1)
  BY <1>7, <1>8, <1>9, <1>10, LifeShape
<1> QED  BY <1>10, <1>11 DEF s, s1, qu, sg

\* The receivers have no more than the claim and the output socket.
LEMMA ReceiverShape ==
  ASSUME NEW h, Head1(h)
  PROVE  Shape(Around(((h \o <<"ports">>) \o <<"raw">>) \o <<"signals">>),
               "ports", Len(h) + 2)
<1> DEFINE po == <<"ports">>
           rw == <<"raw">>
           sg == <<"signals">>
           s1 == h \o po
           s2 == s1 \o rw
           s == s2 \o sg
           n == Len(h) + 1
<1>1. h \in Seq(Stage) /\ Len(h) \in Nat /\ Len(h) >= 1
  BY DEF Head1
<1>2. /\ po \in Seq(Stage) /\ Len(po) = 1 /\ po[1] = "ports"
      /\ rw \in Seq(Stage) /\ Len(rw) = 1 /\ rw[1] = "raw"
      /\ sg \in Seq(Stage) /\ Len(sg) = 1 /\ sg[1] = "signals"
  BY DEF Stage, Silent
<1> HIDE DEF po, rw, sg
<1>3. Joined(Stage, s1, h, Len(h), po, 1)
  BY <1>1, <1>2, Concat
<1> HIDE DEF s1
<1>4. s1 \in Seq(Stage) /\ Len(s1) = Len(h) + 1 /\ Len(h) + 1 \in Nat
  BY <1>1, <1>3 DEF Joined
<1>5. Joined(Stage, s2, s1, Len(h) + 1, rw, 1)
  BY <1>2, <1>4, Concat
<1> HIDE DEF s2
<1>6. s2 \in Seq(Stage) /\ Len(s2) = Len(h) + 2 /\ Len(h) + 2 \in Nat
  BY <1>1, <1>5 DEF Joined
<1>7. Joined(Stage, s, s2, Len(h) + 2, sg, 1)
  BY <1>2, <1>6, Concat
<1> HIDE DEF s
<1>8. /\ s[Len(h) + 1] = "ports" /\ s[Len(h) + 2] = "raw"
      /\ s[Len(h) + 3] = "signals"
  <2>1. s1[Len(h) + 1] = po[1]
    BY <1>3 DEF Joined
  <2>2. s2[Len(h) + 1] = s1[Len(h) + 1] /\ s2[(Len(h) + 1) + 1] = rw[1]
    BY <1>1, <1>5 DEF Joined
  <2>3. /\ s[Len(h) + 1] = s2[Len(h) + 1] /\ s[Len(h) + 2] = s2[Len(h) + 2]
        /\ s[(Len(h) + 2) + 1] = sg[1]
    BY <1>1, <1>7 DEF Joined
  <2>4. (Len(h) + 1) + 1 = Len(h) + 2 /\ (Len(h) + 2) + 1 = Len(h) + 3
    BY <1>1
  <2> QED  BY <1>2, <2>1, <2>2, <2>3, <2>4
<1>9. \A i \in 1 .. Len(h) : s[i] = h[i]
  <2>1. \A i \in 1 .. Len(h) : s1[i] = h[i]
    BY <1>3 DEF Joined
  <2>2. \A i \in 1 .. Len(h) + 1 : s2[i] = s1[i]
    BY <1>5 DEF Joined
  <2>3. \A i \in 1 .. Len(h) + 2 : s[i] = s2[i]
    BY <1>7 DEF Joined
  <2> QED  BY <1>1, <2>1, <2>2, <2>3
<1>10. s \in Seq(Stage) /\ Len(s) = n + 2
  BY <1>1, <1>7 DEF Joined
<1>11. \A i \in Len(h) + 1 .. n - 1 : s[i] \in Silent
  BY <1>1
<1>12. s[n] = "ports" /\ s[n + 1] \in Silent /\ s[n + 2] = "signals"
       /\ n \in Nat /\ n > Len(h) /\ n + 1 = Len(h) + 2
  <2>1. n + 1 = Len(h) + 2 /\ n + 2 = Len(h) + 3 /\ n \in Nat /\ n > Len(h)
    BY <1>1
  <2> QED  BY <1>8, <2>1 DEF Silent
<1> HIDE DEF n
<1>13. Shape(Around(s), "ports", n + 1)
  BY <1>9, <1>10, <1>11, <1>12, LifeShape
<1> QED  BY <1>12, <1>13 DEF s, s2, s1, po, rw, sg

\* Whatever the backend and the options, the lives have these shapes.
LEMMA LivesHaveShape ==
  ASSUME NEW b \in {"rq", "rs"}, NEW o
  PROVE  /\ \E q : Shape(Life(b, "gateway", o), "queue", q)
         /\ \E q : Shape(Life(b, "receiver", o), "ports", q)
<1>1. ASSUME NEW h, Head1(h), NEW s \in Silent
      PROVE  Head1(h \o <<s>>)
  BY <1>1, HeadGrows
<1>2. ASSUME NEW h, Head1(h)
      PROVE  Head1(h \o <<>>)
  BY <1>2, HeadGrows
<1>3. /\ "engine" \in Silent /\ "sockets" \in Silent /\ "codec" \in Silent
      /\ "blocks" \in Silent
  BY DEF Silent
<1>4. \E h : /\ Head1(h)
             /\ Life(b, "gateway", o) =
                  Around((h \o <<"open", "queue", "mode">>) \o <<"signals">>)
  <2>1. CASE b = "rq"
    <3> DEFINE h == (<<"options">> \o <<"engine">>) \o <<"sockets">>
    <3>1. Head1(h)
      BY <1>1, <1>3, HeadBegins
    <3>2. Life(b, "gateway", o) =
            Around((h \o <<"open", "queue", "mode">>) \o <<"signals">>)
      BY <2>1 DEF Life, Around, RqGatewayStart, RqGatewayEngine,
         RqGatewaySockets, RqGatewayQueue, Loop, RqGatewayEnd,
         RqGatewaySummary
    <3> QED  BY <3>1, <3>2
  <2>2. CASE b = "rs"
    <3> DEFINE h == (<<"options">> \o RsGatewayCodec(o)) \o <<"sockets">>
    <3>1. Head1(<<"options">> \o RsGatewayCodec(o))
      BY <1>1, <1>2, <1>3, HeadBegins DEF RsGatewayCodec
    <3>2. Head1(h)
      BY <1>1, <1>3, <3>1
    <3>3. Life(b, "gateway", o) =
            Around((h \o <<"open", "queue", "mode">>) \o <<"signals">>)
      BY <2>2 DEF Life, Around, RsGatewayStart,
         RsGatewaySockets, RsGatewayQueue, Loop, RsGatewayEnd,
         RsGatewaySummary
    <3> QED  BY <3>2, <3>3
  <2> QED  BY <2>1, <2>2
<1>5. \E h : /\ Head1(h)
             /\ Life(b, "receiver", o) =
                  Around(((h \o <<"ports">>) \o <<"raw">>) \o <<"signals">>)
  <2>1. CASE b = "rq"
    <3> DEFINE h == <<"options">> \o RqReceiverBlocks(o)
    <3>1. Head1(h)
      BY <1>1, <1>2, <1>3, HeadBegins DEF RqReceiverBlocks
    <3>2. Life(b, "receiver", o) =
            Around(((h \o <<"ports">>) \o <<"raw">>) \o <<"signals">>)
      BY <2>1 DEF Life, Around, RqReceiverStart, RqReceiverPorts,
         RqReceiverRaw, Loop, RqReceiverEnd, RqReceiverSummary
    <3> QED  BY <3>1, <3>2
  <2>2. CASE b = "rs"
    <3> DEFINE h == (<<"options">> \o RsReceiverBlocks(o))
                      \o RsReceiverCodec(o)
    <3>1. Head1(<<"options">> \o RsReceiverBlocks(o))
      BY <1>1, <1>2, <1>3, HeadBegins DEF RsReceiverBlocks
    <3>2. Head1(h)
      BY <1>1, <1>2, <1>3, <3>1 DEF RsReceiverCodec
    <3>3. Life(b, "receiver", o) =
            Around(((h \o <<"ports">>) \o <<"raw">>) \o <<"signals">>)
      BY <2>2 DEF Life, Around, RsReceiverStart, RsReceiverPorts,
         RsReceiverRaw, Loop, RsReceiverEnd, RsReceiverSummary
    <3> QED  BY <3>2, <3>3
  <2> QED  BY <2>1, <2>2
<1> QED  BY <1>4, <1>5, GatewayShape, ReceiverShape

\* PlaceOf and After in a given life.
PlaceIn(st, s) == CHOOSE i \in DOMAIN st : st[i] = s
LaterIn(st, i) == {k \in DOMAIN st : k > i /\ st[k] \notin Silent}
NextIn(st, s) ==
  IF LaterIn(st, PlaceIn(st, s)) = {} THEN "gone"
  ELSE st[CHOOSE i \in LaterIn(st, PlaceIn(st, s)) :
            \A j \in LaterIn(st, PlaceIn(st, s)) : i <= j]

\* A stage that occurs once is found where it is.
LEMMA PlaceIs ==
  ASSUME NEW st, NEW s, NEW i \in DOMAIN st, st[i] = s,
         \A k \in DOMAIN st : st[k] = s => k = i
  PROVE  PlaceIn(st, s) = i
  BY DEF PlaceIn

\* The next stage is the first one behind it that is not silent.
LEMMA NextIs ==
  ASSUME NEW st, NEW s, NEW n \in Nat, DOMAIN st = 1 .. n,
         NEW i \in 1 .. n, PlaceIn(st, s) = i,
         NEW j \in 1 .. n, i < j, st[j] \notin Silent,
         \A k \in 1 .. n : i < k /\ k < j => st[k] \in Silent
  PROVE  NextIn(st, s) = st[j]
<1> DEFINE L == LaterIn(st, i)
<1>1. j \in L /\ L \subseteq 1 .. n
  BY DEF LaterIn
<1>2. \A k \in L : j <= k
  BY DEF LaterIn
<1> HIDE DEF L
<1>3. (CHOOSE l \in L : \A k \in L : l <= k) = j
  <2>1. \A l \in L : (\A k \in L : l <= k) => l = j
    BY <1>1, <1>2
  <2> QED  BY <1>1, <1>2, <2>1
<1> QED  BY <1>1, <1>3 DEF NextIn, L

\* Where the stages are in such a life, and which one follows another.
Table(st, c, q) ==
  /\ PlaceIn(st, "shell") = 1 /\ PlaceIn(st, "options") = 2
  /\ PlaceIn(st, c) = q /\ PlaceIn(st, "signals") = q + 2
  /\ PlaceIn(st, "test") = q + 3 /\ PlaceIn(st, "about") = q + 4
  /\ PlaceIn(st, "wait") = q + 5 /\ PlaceIn(st, "statistics") = q + 6
  /\ PlaceIn(st, "summary") = q + 7 /\ PlaceIn(st, "release") = q + 8
  /\ NextIn(st, "shell") = "options" /\ NextIn(st, "options") = c
  /\ NextIn(st, c) = "signals" /\ NextIn(st, "signals") = "test"
  /\ NextIn(st, "statistics") = "summary"

\* The places and successors of the stages that the model lets a program
\* stand at, in any life of the shape above.
LEMMA ShapeTable ==
  ASSUME NEW st, NEW c \in {"queue", "ports"}, NEW q, Shape(st, c, q)
  PROVE  Table(st, c, q)
<1>1. /\ q \in Nat /\ q >= 3
      /\ DOMAIN st = 1 .. q + 8
      /\ st[1] = "shell" /\ st[2] = "options" /\ st[q] = c
      /\ \A k \in 3 .. q - 1 : st[k] \in Silent
      /\ st[q + 1] \in Silent
      /\ st[q + 2] = "signals" /\ st[q + 3] = "test" /\ st[q + 4] = "about"
      /\ st[q + 5] = "wait" /\ st[q + 6] = "statistics"
      /\ st[q + 7] = "summary" /\ st[q + 8] = "release"
  BY DEF Shape
<1>2. \A k \in 1 .. q + 8 :
        \/ k = 1 \/ k = 2 \/ k = q \/ k \in 3 .. q - 1 \/ k = q + 1
        \/ k = q + 2 \/ k = q + 3 \/ k = q + 4 \/ k = q + 5 \/ k = q + 6
        \/ k = q + 7 \/ k = q + 8
  BY <1>1
<1>3. Silent \cap {"shell", "options", "queue", "ports", "signals", "test",
                   "about", "wait", "statistics", "summary", "release"} = {}
  BY DEF Silent
<1>13. ASSUME NEW s, NEW i \in 1 .. q + 8, st[i] = s,
              \A k \in 1 .. q + 8 : st[k] = s => k = i
       PROVE  PlaceIn(st, s) = i
  <2>1. i \in DOMAIN st /\ \A k \in DOMAIN st : st[k] = s => k = i
    BY <1>1, <1>13
  <2> QED  BY <1>13, <2>1, PlaceIs
<1>4. /\ PlaceIn(st, "shell") = 1
      /\ PlaceIn(st, "options") = 2
      /\ PlaceIn(st, c) = q
      /\ PlaceIn(st, "signals") = q + 2
  <2>1. PlaceIn(st, "shell") = 1
    <3>1. 1 \in 1 .. q + 8 /\ st[1] = "shell"
      BY <1>1
    <3>2. \A k \in 1 .. q + 8 : st[k] = "shell" => k = 1
      BY <1>1, <1>2, <1>3
    <3> QED  BY <1>13, <3>1, <3>2
  <2>2. PlaceIn(st, "options") = 2
    <3>1. 2 \in 1 .. q + 8 /\ st[2] = "options"
      BY <1>1
    <3>2. \A k \in 1 .. q + 8 : st[k] = "options" => k = 2
      BY <1>1, <1>2, <1>3
    <3> QED  BY <1>13, <3>1, <3>2
  <2>3. PlaceIn(st, c) = q
    <3>1. q \in 1 .. q + 8 /\ st[q] = c
      BY <1>1
    <3>2. \A k \in 1 .. q + 8 : st[k] = c => k = q
      BY <1>1, <1>2, <1>3
    <3> QED  BY <1>13, <3>1, <3>2
  <2>4. PlaceIn(st, "signals") = q + 2
    <3>1. q + 2 \in 1 .. q + 8 /\ st[q + 2] = "signals"
      BY <1>1
    <3>2. \A k \in 1 .. q + 8 : st[k] = "signals" => k = q + 2
      BY <1>1, <1>2, <1>3
    <3> QED  BY <1>13, <3>1, <3>2
  <2> QED  BY <2>1, <2>2, <2>3, <2>4
<1>5. /\ PlaceIn(st, "test") = q + 3
      /\ PlaceIn(st, "about") = q + 4
      /\ PlaceIn(st, "wait") = q + 5
  <2>1. PlaceIn(st, "test") = q + 3
    <3>1. q + 3 \in 1 .. q + 8 /\ st[q + 3] = "test"
      BY <1>1
    <3>2. \A k \in 1 .. q + 8 : st[k] = "test" => k = q + 3
      BY <1>1, <1>2, <1>3
    <3> QED  BY <1>13, <3>1, <3>2
  <2>2. PlaceIn(st, "about") = q + 4
    <3>1. q + 4 \in 1 .. q + 8 /\ st[q + 4] = "about"
      BY <1>1
    <3>2. \A k \in 1 .. q + 8 : st[k] = "about" => k = q + 4
      BY <1>1, <1>2, <1>3
    <3> QED  BY <1>13, <3>1, <3>2
  <2>3. PlaceIn(st, "wait") = q + 5
    <3>1. q + 5 \in 1 .. q + 8 /\ st[q + 5] = "wait"
      BY <1>1
    <3>2. \A k \in 1 .. q + 8 : st[k] = "wait" => k = q + 5
      BY <1>1, <1>2, <1>3
    <3> QED  BY <1>13, <3>1, <3>2
  <2> QED  BY <2>1, <2>2, <2>3
<1>6. /\ PlaceIn(st, "statistics") = q + 6
      /\ PlaceIn(st, "summary") = q + 7
      /\ PlaceIn(st, "release") = q + 8
  <2>1. PlaceIn(st, "statistics") = q + 6
    <3>1. q + 6 \in 1 .. q + 8 /\ st[q + 6] = "statistics"
      BY <1>1
    <3>2. \A k \in 1 .. q + 8 : st[k] = "statistics" => k = q + 6
      BY <1>1, <1>2, <1>3
    <3> QED  BY <1>13, <3>1, <3>2
  <2>2. PlaceIn(st, "summary") = q + 7
    <3>1. q + 7 \in 1 .. q + 8 /\ st[q + 7] = "summary"
      BY <1>1
    <3>2. \A k \in 1 .. q + 8 : st[k] = "summary" => k = q + 7
      BY <1>1, <1>2, <1>3
    <3> QED  BY <1>13, <3>1, <3>2
  <2>3. PlaceIn(st, "release") = q + 8
    <3>1. q + 8 \in 1 .. q + 8 /\ st[q + 8] = "release"
      BY <1>1
    <3>2. \A k \in 1 .. q + 8 : st[k] = "release" => k = q + 8
      BY <1>1, <1>2, <1>3
    <3> QED  BY <1>13, <3>1, <3>2
  <2> QED  BY <2>1, <2>2, <2>3
<1>7. ASSUME NEW s, NEW i \in 1 .. q + 8, PlaceIn(st, s) = i,
             NEW j \in 1 .. q + 8, i < j, st[j] \notin Silent,
             \A k \in 1 .. q + 8 : i < k /\ k < j => st[k] \in Silent
      PROVE  NextIn(st, s) = st[j]
  <2>1. q + 8 \in Nat
    BY <1>1
  <2> QED  BY <1>1, <1>7, <2>1, NextIs
<1>8. NextIn(st, "shell") = "options"
  <2>1. 1 \in 1 .. q + 8 /\ 2 \in 1 .. q + 8 /\ 1 < 2
        /\ \A k \in 1 .. q + 8 : ~(1 < k /\ k < 2)
    BY <1>1
  <2> QED  BY <1>1, <1>3, <1>4, <1>7, <2>1
<1>9. NextIn(st, "options") = c
  <2>1. 2 \in 1 .. q + 8 /\ q \in 1 .. q + 8 /\ 2 < q
        /\ \A k \in 1 .. q + 8 : 2 < k /\ k < q => k \in 3 .. q - 1
    BY <1>1
  <2>2. NextIn(st, "options") = st[q]
    BY <1>1, <1>3, <1>4, <1>7, <2>1
  <2> QED  BY <1>1, <2>2
<1>10. NextIn(st, c) = "signals"
  <2>1. q \in 1 .. q + 8 /\ q + 2 \in 1 .. q + 8 /\ q < q + 2
        /\ \A k \in 1 .. q + 8 : q < k /\ k < q + 2 => k = q + 1
    BY <1>1
  <2>2. NextIn(st, c) = st[q + 2]
    BY <1>1, <1>3, <1>4, <1>7, <2>1
  <2> QED  BY <1>1, <2>2
<1>11. NextIn(st, "signals") = "test"
  <2>1. q + 2 \in 1 .. q + 8 /\ q + 3 \in 1 .. q + 8 /\ q + 2 < q + 3
        /\ \A k \in 1 .. q + 8 : ~(q + 2 < k /\ k < q + 3)
    BY <1>1
  <2>2. NextIn(st, "signals") = st[q + 3]
    BY <1>1, <1>3, <1>4, <1>7, <2>1
  <2> QED  BY <1>1, <2>2
<1>12. NextIn(st, "statistics") = "summary"
  <2>1. q + 6 \in 1 .. q + 8 /\ q + 7 \in 1 .. q + 8 /\ q + 6 < q + 7
        /\ \A k \in 1 .. q + 8 : ~(q + 6 < k /\ k < q + 7)
    BY <1>1
  <2>2. NextIn(st, "statistics") = st[q + 7]
    BY <1>1, <1>3, <1>6, <1>7, <2>1
  <2> QED  BY <1>1, <2>2
<1> QED  BY <1>4, <1>5, <1>6, <1>8, <1>9, <1>10, <1>11, <1>12 DEF Table

\* The same of the destination server.
LEMMA ServerTable ==
  LET st == Life(plan.backend, "server", Given(plan))
  IN  /\ DOMAIN st = 1 .. 5
      /\ st[1] = "signals" /\ st[2] = "bind" /\ st[3] = "wait"
      /\ st[4] = "statistics" /\ st[5] = "release"
      /\ PlaceIn(st, "signals") = 1 /\ PlaceIn(st, "bind") = 2
      /\ PlaceIn(st, "wait") = 3 /\ PlaceIn(st, "statistics") = 4
      /\ PlaceIn(st, "release") = 5
      /\ NextIn(st, "signals") = "bind" /\ NextIn(st, "bind") = "wait"
      /\ NextIn(st, "statistics") = "release"
<1> DEFINE a == <<"signals", "bind">>
           b == <<"wait">>
           c == <<"statistics", "release">>
           ab == a \o b
           st == ab \o c
<1>1. Life(plan.backend, "server", Given(plan)) = st
  BY DEF Life, ServerStart, ServerLoop, ServerEnd
<1>2. /\ a \in Seq(Stage) /\ Len(a) = 2 /\ a[1] = "signals" /\ a[2] = "bind"
      /\ b \in Seq(Stage) /\ Len(b) = 1 /\ b[1] = "wait"
      /\ c \in Seq(Stage) /\ Len(c) = 2 /\ c[1] = "statistics"
      /\ c[2] = "release"
  BY DEF Stage
<1> HIDE DEF a, b, c
<1>3. Joined(Stage, ab, a, 2, b, 1)
  BY <1>2, Concat
<1> HIDE DEF ab
<1>4. ab \in Seq(Stage) /\ Len(ab) = 3 /\ ab[1] = "signals"
      /\ ab[2] = "bind" /\ ab[3] = "wait"
  <2>1. ab[1] = a[1] /\ ab[2] = a[2] /\ ab[2 + 1] = b[1]
    BY <1>3 DEF Joined
  <2> QED  BY <1>2, <1>3, <2>1 DEF Joined
<1>5. Joined(Stage, st, ab, 3, c, 2)
  BY <1>2, <1>4, Concat
<1> HIDE DEF st
<1>6. /\ DOMAIN st = 1 .. 5
      /\ st[1] = "signals" /\ st[2] = "bind" /\ st[3] = "wait"
      /\ st[4] = "statistics" /\ st[5] = "release"
  <2>1. st[1] = ab[1] /\ st[2] = ab[2] /\ st[3] = ab[3]
        /\ st[3 + 1] = c[1] /\ st[3 + 2] = c[2]
    BY <1>5 DEF Joined
  <2> QED  BY <1>2, <1>4, <1>5, <2>1 DEF Joined
<1>7. \A k \in 1 .. 5 : k = 1 \/ k = 2 \/ k = 3 \/ k = 4 \/ k = 5
  OBVIOUS
<1>8. /\ PlaceIn(st, "signals") = 1 /\ PlaceIn(st, "bind") = 2
      /\ PlaceIn(st, "wait") = 3 /\ PlaceIn(st, "statistics") = 4
      /\ PlaceIn(st, "release") = 5
  <2>1. /\ \A k \in DOMAIN st : st[k] = "signals" => k = 1
        /\ \A k \in DOMAIN st : st[k] = "bind" => k = 2
        /\ \A k \in DOMAIN st : st[k] = "wait" => k = 3
        /\ \A k \in DOMAIN st : st[k] = "statistics" => k = 4
        /\ \A k \in DOMAIN st : st[k] = "release" => k = 5
    BY <1>6, <1>7
  <2>2. 1 \in 1 .. 5 /\ 2 \in 1 .. 5 /\ 3 \in 1 .. 5 /\ 4 \in 1 .. 5
        /\ 5 \in 1 .. 5
    OBVIOUS
  <2> QED  BY <1>6, <2>1, <2>2, PlaceIs
<1>9. ASSUME NEW s, NEW i \in 1 .. 5, PlaceIn(st, s) = i,
             NEW j \in 1 .. 5, j = i + 1, st[j] \notin Silent
      PROVE  NextIn(st, s) = st[j]
  <2>1. /\ i < j /\ 5 \in Nat
        /\ \A k \in 1 .. 5 : i < k /\ k < j => st[k] \in Silent
    BY <1>9
  <2> QED  BY <1>6, <1>9, <2>1, NextIs
<1>10. /\ NextIn(st, "signals") = "bind" /\ NextIn(st, "bind") = "wait"
       /\ NextIn(st, "statistics") = "release"
  <2>1. {"bind", "wait", "release"} \cap Silent = {}
    BY DEF Silent
  <2>2. /\ NextIn(st, "signals") = st[2] /\ NextIn(st, "bind") = st[3]
        /\ NextIn(st, "statistics") = st[5]
    BY <1>6, <1>8, <1>9, <2>1
  <2> QED  BY <1>6, <2>2
<1> QED  BY <1>1, <1>6, <1>8, <1>10

\* The names of the stages a program is seen in, and those in which it has
\* its queue or port.
Seen(r) ==
  IF r = "server" THEN {"signals", "bind", "wait", "statistics", "release"}
  ELSE {"shell", "options", ClaimOf(r), "signals", "test", "about", "wait",
        "statistics", "summary", "release"}
HeldAt(r) ==
  IF r = "server" THEN {"wait", "statistics", "release"}
  ELSE {"signals", "test", "about", "wait", "statistics", "summary",
        "release"}
Held(r, a) == At(r, a) \in HeldAt(r)

\* The stages of a plan's gateway: how it starts, claims its queue, serves
\* and goes; and it holds its queue exactly between the claim and the end.
LEMMA GatewayStages ==
  ASSUME plan \in Plans
  PROVE  /\ Stages("gateway")[1] = "shell"
         /\ After("gateway", "shell") = "options"
         /\ After("gateway", "options") = "queue"
         /\ After("gateway", "queue") = "signals"
         /\ After("gateway", "signals") = "test"
         /\ After("gateway", "statistics") = "summary"
         /\ \A a : At("gateway", a) \in Seen("gateway") \cup {"none", "gone"}
                     => (Holds("gateway", a) <=> Held("gateway", a))
<1> DEFINE st == Stages("gateway")
<1>1. st = Life(plan.backend, "gateway", Given(plan))
      /\ plan.backend \in {"rq", "rs"}
  BY ExperimentAssumption DEF ExperimentAssumption, Stages, StagesIn, Roles
<1>2. PICK q : Shape(st, "queue", q)
  BY <1>1, LivesHaveShape
<1>3. q \in Nat /\ st[1] = "shell"
  BY <1>2 DEF Shape
<1>4. \A s : PlaceOf("gateway", s) = PlaceIn(st, s)
             /\ After("gateway", s) = NextIn(st, s)
  BY DEF PlaceOf, PlaceIn, After, NextIn, LaterIn
<1> HIDE DEF st
<1>5. /\ PlaceIn(st, "shell") = 1 /\ PlaceIn(st, "options") = 2
      /\ PlaceIn(st, "queue") = q /\ PlaceIn(st, "signals") = q + 2
      /\ PlaceIn(st, "test") = q + 3 /\ PlaceIn(st, "about") = q + 4
      /\ PlaceIn(st, "wait") = q + 5 /\ PlaceIn(st, "statistics") = q + 6
      /\ PlaceIn(st, "summary") = q + 7 /\ PlaceIn(st, "release") = q + 8
      /\ NextIn(st, "shell") = "options" /\ NextIn(st, "options") = "queue"
      /\ NextIn(st, "queue") = "signals" /\ NextIn(st, "signals") = "test"
      /\ NextIn(st, "statistics") = "summary" /\ q >= 3
  <2>1. Table(st, "queue", q) /\ q >= 3
    BY <1>2, ShapeTable DEF Shape
  <2> QED  BY <2>1 DEF Table
<1>6. ASSUME NEW a, At("gateway", a) \in Seen("gateway") \cup {"none", "gone"}
      PROVE  Holds("gateway", a) <=> Held("gateway", a)
  <2>1. /\ ClaimOf("gateway") = "queue"
        /\ PlaceOf("gateway", ClaimOf("gateway")) = q
    BY <1>4, <1>5 DEF ClaimOf
  <2>2. CASE At("gateway", a) \in {"none", "gone"}
    BY <2>2 DEF Holds, Held, Alive, HeldAt
  <2>3. CASE At("gateway", a) \in {"shell", "options", "queue"}
    BY <1>3, <1>4, <1>5, <2>1, <2>3 DEF Holds, Held, HeldAt
  <2>4. CASE At("gateway", a) \in HeldAt("gateway")
    BY <1>3, <1>4, <1>5, <2>1, <2>4 DEF Holds, Held, Alive, HeldAt
  <2> QED  BY <1>6, <2>1, <2>2, <2>3, <2>4 DEF Seen, HeldAt
<1> QED  BY <1>3, <1>4, <1>5, <1>6 DEF st

\* The same of a plan's receiver and its ports.
LEMMA ReceiverStages ==
  ASSUME plan \in Plans
  PROVE  /\ Stages("receiver")[1] = "shell"
         /\ After("receiver", "shell") = "options"
         /\ After("receiver", "options") = "ports"
         /\ After("receiver", "ports") = "signals"
         /\ After("receiver", "signals") = "test"
         /\ After("receiver", "statistics") = "summary"
         /\ \A a : At("receiver", a) \in Seen("receiver") \cup {"none", "gone"}
                     => (Holds("receiver", a) <=> Held("receiver", a))
<1> DEFINE st == Stages("receiver")
<1>1. st = Life(plan.backend, "receiver", Given(plan))
      /\ plan.backend \in {"rq", "rs"}
  BY ExperimentAssumption DEF ExperimentAssumption, Stages, StagesIn, Roles
<1>2. PICK q : Shape(st, "ports", q)
  BY <1>1, LivesHaveShape
<1>3. q \in Nat /\ st[1] = "shell"
  BY <1>2 DEF Shape
<1>4. \A s : PlaceOf("receiver", s) = PlaceIn(st, s)
             /\ After("receiver", s) = NextIn(st, s)
  BY DEF PlaceOf, PlaceIn, After, NextIn, LaterIn
<1> HIDE DEF st
<1>5. /\ PlaceIn(st, "shell") = 1 /\ PlaceIn(st, "options") = 2
      /\ PlaceIn(st, "ports") = q /\ PlaceIn(st, "signals") = q + 2
      /\ PlaceIn(st, "test") = q + 3 /\ PlaceIn(st, "about") = q + 4
      /\ PlaceIn(st, "wait") = q + 5 /\ PlaceIn(st, "statistics") = q + 6
      /\ PlaceIn(st, "summary") = q + 7 /\ PlaceIn(st, "release") = q + 8
      /\ NextIn(st, "shell") = "options" /\ NextIn(st, "options") = "ports"
      /\ NextIn(st, "ports") = "signals" /\ NextIn(st, "signals") = "test"
      /\ NextIn(st, "statistics") = "summary" /\ q >= 3
  <2>1. Table(st, "ports", q) /\ q >= 3
    BY <1>2, ShapeTable DEF Shape
  <2> QED  BY <2>1 DEF Table
<1>6. ASSUME NEW a, At("receiver", a) \in Seen("receiver") \cup {"none", "gone"}
      PROVE  Holds("receiver", a) <=> Held("receiver", a)
  <2>1. /\ ClaimOf("receiver") = "ports"
        /\ PlaceOf("receiver", ClaimOf("receiver")) = q
    BY <1>4, <1>5 DEF ClaimOf
  <2>2. CASE At("receiver", a) \in {"none", "gone"}
    BY <2>2 DEF Holds, Held, Alive, HeldAt
  <2>3. CASE At("receiver", a) \in {"shell", "options", "ports"}
    BY <1>3, <1>4, <1>5, <2>1, <2>3 DEF Holds, Held, HeldAt
  <2>4. CASE At("receiver", a) \in HeldAt("receiver")
    BY <1>3, <1>4, <1>5, <2>1, <2>4 DEF Holds, Held, Alive, HeldAt
  <2> QED  BY <1>6, <2>1, <2>2, <2>3, <2>4 DEF Seen, HeldAt
<1> QED  BY <1>3, <1>4, <1>5, <1>6 DEF st

\* The same of the destination server and its port.
LEMMA ServerStages ==
  ASSUME plan \in Plans
  PROVE  /\ Stages("server")[1] = "signals"
         /\ After("server", "signals") = "bind"
         /\ After("server", "bind") = "wait"
         /\ After("server", "statistics") = "release"
         /\ \A a : At("server", a) \in Seen("server") \cup {"none", "gone"}
                     => (Holds("server", a) <=> Held("server", a))
<1> DEFINE st == Stages("server")
<1>1. st = Life(plan.backend, "server", Given(plan))
  BY DEF Stages, StagesIn, Roles
<1>2. \A s : PlaceOf("server", s) = PlaceIn(st, s)
             /\ After("server", s) = NextIn(st, s)
  BY DEF PlaceOf, PlaceIn, After, NextIn, LaterIn
<1> HIDE DEF st
<1>3. /\ st[1] = "signals"
      /\ PlaceIn(st, "signals") = 1 /\ PlaceIn(st, "bind") = 2
      /\ PlaceIn(st, "wait") = 3 /\ PlaceIn(st, "statistics") = 4
      /\ PlaceIn(st, "release") = 5
      /\ NextIn(st, "signals") = "bind" /\ NextIn(st, "bind") = "wait"
      /\ NextIn(st, "statistics") = "release"
  BY <1>1, ServerTable
<1>4. ASSUME NEW a, At("server", a) \in Seen("server") \cup {"none", "gone"}
      PROVE  Holds("server", a) <=> Held("server", a)
  <2>1. /\ ClaimOf("server") = "bind"
        /\ PlaceOf("server", ClaimOf("server")) = 2
    BY <1>2, <1>3 DEF ClaimOf
  <2>2. CASE At("server", a) \in {"none", "gone"}
    BY <2>2 DEF Holds, Held, Alive, HeldAt
  <2>3. CASE At("server", a) \in {"signals", "bind"}
    BY <1>2, <1>3, <2>1, <2>3 DEF Holds, Held, HeldAt
  <2>4. CASE At("server", a) \in HeldAt("server")
    BY <1>2, <1>3, <2>1, <2>4 DEF Holds, Held, Alive, HeldAt
  <2> QED  BY <1>4, <2>2, <2>3, <2>4 DEF Seen, HeldAt
<1> QED  BY <1>2, <1>3, <1>4 DEF st

-----------------------------------------------------------------------------
(* The runner's scripts *)

\* How many operations of a kind there are for the monitor.
M == IF plan.monitored THEN 1 ELSE 0

OpNames == {"clean", "rest", "remove", "start", "await", "traffic", "signal",
            "collect", "pkill", "judge"}
OpRoles == {"", "gateway", "receiver", "server", "monitor"}
Ops == [op : OpNames, role : OpRoles]

\* Operations are told apart by their name and their program.
LEMMA OpsAre ==
  /\ \A o \in OpNames, r \in OpRoles : Op(o, r) \in Ops
  /\ \A o, r, o2, r2 : Op(o, r) = Op(o2, r2) => o = o2 /\ r = r2
<1>1. \A o, r : Op(o, r).op = o /\ Op(o, r).role = r
  BY DEF Op
<1>2. \A o \in OpNames, r \in OpRoles : Op(o, r) \in Ops
  BY DEF Op, Ops
<1>3. \A o, r, o2, r2 : Op(o, r) = Op(o2, r2) => o = o2 /\ r = r2
  <2> SUFFICES ASSUME NEW o, NEW r, NEW o2, NEW r2, Op(o, r) = Op(o2, r2)
               PROVE  o = o2 /\ r = r2
    OBVIOUS
  <2>1. Op(o, r).op = Op(o2, r2).op /\ Op(o, r).role = Op(o2, r2).role
    OBVIOUS
  <2> QED  BY <1>1, <2>1
<1> QED  BY <1>2, <1>3, Zenon

\* t is a sequence of operations, of length n.
OpSeq(t, n) == t \in Seq(Ops) /\ Len(t) = n

\* Short tuples of operations are sequences of operations.
LEMMA OpTuples ==
  /\ \A a, b \in Ops : OpSeq(<<a, b>>, 2)
  /\ \A a, b, c \in Ops : OpSeq(<<a, b, c>>, 3)
  /\ \A a, b, c, d, e \in Ops : OpSeq(<<a, b, c, d, e>>, 5)
  /\ \A a, b, c, d, e, f, g, h \in Ops :
       OpSeq(<<a, b, c, d, e, f, g, h>>, 8)
  BY DEF OpSeq

\* The operations on the path monitor are there when the plan has one.
LEMMA MonitorOps ==
  ASSUME NEW o \in OpNames
  PROVE  /\ MonitorOnly(plan.monitored, o) \in Seq(Ops)
         /\ Len(MonitorOnly(plan.monitored, o)) = M
         /\ M \in 0 .. 1 /\ M \in Nat
         /\ plan.monitored <=> M = 1
         /\ plan.monitored => MonitorOnly(plan.monitored, o)[1] = Op(o, "monitor")
<1> DEFINE x == Op(o, "monitor")
<1>1. x \in Ops
  BY OpsAre DEF OpRoles
<1> HIDE DEF x
<1>2. MonitorOnly(plan.monitored, o) = IF plan.monitored THEN <<x>> ELSE <<>>
  BY DEF MonitorOnly, x
<1>3. <<x>> \in Seq(Ops) /\ Len(<<x>>) = 1 /\ <<x>>[1] = x
  BY <1>1
<1> QED  BY <1>2, <1>3 DEF M, x

\* The operations of the script and their places.
ScriptTable(sc) ==
  /\ Len(sc) = 18 + 3 * M
  /\ sc[1] = Op("clean", "") /\ sc[2] = Op("rest", "")
  /\ sc[3] = Op("remove", "")
  /\ sc[4] = Op("start", "server") /\ sc[5] = Op("start", "receiver")
  /\ plan.monitored => sc[6] = Op("start", "monitor")
  /\ sc[6 + M] = Op("start", "gateway") /\ sc[7 + M] = Op("rest", "")
  /\ sc[8 + M] = Op("await", "gateway") /\ sc[9 + M] = Op("await", "receiver")
  /\ sc[10 + M] = Op("traffic", "") /\ sc[11 + M] = Op("rest", "")
  /\ sc[12 + M] = Op("signal", "gateway")
  /\ sc[13 + M] = Op("signal", "receiver")
  /\ plan.monitored => sc[15] = Op("signal", "monitor")
  /\ sc[14 + 2 * M] = Op("collect", "gateway")
  /\ sc[15 + 2 * M] = Op("collect", "receiver")
  /\ plan.monitored => sc[18] = Op("collect", "monitor")
  /\ sc[16 + 3 * M] = Op("pkill", "server")
  /\ sc[17 + 3 * M] = Op("collect", "server")
  /\ sc[18 + 3 * M] = Op("judge", "")

\* Which operation stands at which place of the body of main.
LEMMA ScriptIs == ScriptTable(Script)
<1> DEFINE p1 == <<Op("clean", ""), Op("rest", ""), Op("remove", ""),
                   Op("start", "server"), Op("start", "receiver")>>
           m1 == MonitorOnly(plan.monitored, "start")
           p2 == <<Op("start", "gateway"), Op("rest", ""),
                   Op("await", "gateway"), Op("await", "receiver"),
                   Op("traffic", ""), Op("rest", ""), Op("signal", "gateway"),
                   Op("signal", "receiver")>>
           m2 == MonitorOnly(plan.monitored, "signal")
           p3 == <<Op("collect", "gateway"), Op("collect", "receiver")>>
           m3 == MonitorOnly(plan.monitored, "collect")
           p4 == <<Op("pkill", "server"), Op("collect", "server"),
                   Op("judge", "")>>
           s1 == p1 \o m1
           s2 == s1 \o p2
           s3 == s2 \o m2
           s4 == s3 \o p3
           s5 == s4 \o m3
           s6 == s5 \o p4
<1>1. \A o \in OpNames, r \in OpRoles : Op(o, r) \in Ops
  BY OpsAre
<1>2. /\ p1 \in Seq(Ops) /\ Len(p1) = 5
      /\ p1[1] = Op("clean", "") /\ p1[2] = Op("rest", "")
      /\ p1[3] = Op("remove", "") /\ p1[4] = Op("start", "server")
      /\ p1[5] = Op("start", "receiver")
  <2>1. /\ Op("clean", "") \in Ops /\ Op("rest", "") \in Ops
        /\ Op("remove", "") \in Ops /\ Op("start", "server") \in Ops
        /\ Op("start", "receiver") \in Ops
    BY <1>1 DEF OpNames, OpRoles
  <2>2. OpSeq(p1, 5)
    BY <2>1, OpTuples
  <2> QED  BY <2>2 DEF OpSeq
<1>3. /\ p2 \in Seq(Ops) /\ Len(p2) = 8
      /\ p2[1] = Op("start", "gateway") /\ p2[2] = Op("rest", "")
      /\ p2[3] = Op("await", "gateway") /\ p2[4] = Op("await", "receiver")
      /\ p2[5] = Op("traffic", "") /\ p2[6] = Op("rest", "")
      /\ p2[7] = Op("signal", "gateway") /\ p2[8] = Op("signal", "receiver")
  <2>1. /\ Op("start", "gateway") \in Ops /\ Op("rest", "") \in Ops
        /\ Op("await", "gateway") \in Ops /\ Op("await", "receiver") \in Ops
        /\ Op("traffic", "") \in Ops /\ Op("signal", "gateway") \in Ops
        /\ Op("signal", "receiver") \in Ops
    BY <1>1 DEF OpNames, OpRoles
  <2>2. OpSeq(p2, 8)
    BY <2>1, OpTuples
  <2> QED  BY <2>2 DEF OpSeq
<1>4. /\ p3 \in Seq(Ops) /\ Len(p3) = 2
      /\ p3[1] = Op("collect", "gateway") /\ p3[2] = Op("collect", "receiver")
      /\ p4 \in Seq(Ops) /\ Len(p4) = 3
      /\ p4[1] = Op("pkill", "server") /\ p4[2] = Op("collect", "server")
      /\ p4[3] = Op("judge", "")
  <2>1. /\ Op("collect", "gateway") \in Ops /\ Op("judge", "") \in Ops
        /\ Op("collect", "receiver") \in Ops /\ Op("pkill", "server") \in Ops
        /\ Op("collect", "server") \in Ops
    BY <1>1 DEF OpNames, OpRoles
  <2>2. OpSeq(p3, 2) /\ OpSeq(p4, 3)
    BY <2>1, OpTuples
  <2> QED  BY <2>2 DEF OpSeq
<1>5. /\ m1 \in Seq(Ops) /\ Len(m1) = M
      /\ plan.monitored => m1[1] = Op("start", "monitor")
      /\ m2 \in Seq(Ops) /\ Len(m2) = M
      /\ plan.monitored => m2[1] = Op("signal", "monitor")
      /\ m3 \in Seq(Ops) /\ Len(m3) = M
      /\ plan.monitored => m3[1] = Op("collect", "monitor")
      /\ M \in 0 .. 1 /\ M \in Nat /\ (plan.monitored => M = 1)
  BY MonitorOps DEF OpNames
<1>6. Script = s6
  BY DEF Script, ScriptMonitored, ScriptPlain, ScriptOf, MonitorOnly
<1> HIDE DEF p1, p2, p3, p4, m1, m2, m3
<1>7. /\ 5 + M \in Nat /\ 13 + M \in Nat /\ 13 + 2 * M \in Nat
      /\ 15 + 2 * M \in Nat /\ 15 + 3 * M \in Nat
      /\ (5 + M) + 8 = 13 + M /\ (13 + M) + M = 13 + 2 * M
      /\ (13 + 2 * M) + 2 = 15 + 2 * M /\ (15 + 2 * M) + M = 15 + 3 * M
      /\ (15 + 3 * M) + 3 = 18 + 3 * M
  BY <1>5
<1>8. Joined(Ops, s1, p1, 5, m1, M)
  BY <1>2, <1>5, Concat
<1> HIDE DEF s1
<1>9. s1 \in Seq(Ops) /\ Len(s1) = 5 + M
  BY <1>8 DEF Joined
<1>10. Joined(Ops, s2, s1, 5 + M, p2, 8)
  BY <1>3, <1>7, <1>9, Concat
<1> HIDE DEF s2
<1>11. s2 \in Seq(Ops) /\ Len(s2) = 13 + M
  BY <1>7, <1>10 DEF Joined
<1>12. Joined(Ops, s3, s2, 13 + M, m2, M)
  BY <1>5, <1>7, <1>11, Concat
<1> HIDE DEF s3
<1>13. s3 \in Seq(Ops) /\ Len(s3) = 13 + 2 * M
  BY <1>7, <1>12 DEF Joined
<1>14. Joined(Ops, s4, s3, 13 + 2 * M, p3, 2)
  BY <1>4, <1>7, <1>13, Concat
<1> HIDE DEF s4
<1>15. s4 \in Seq(Ops) /\ Len(s4) = 15 + 2 * M
  BY <1>7, <1>14 DEF Joined
<1>16. Joined(Ops, s5, s4, 15 + 2 * M, m3, M)
  BY <1>5, <1>7, <1>15, Concat
<1> HIDE DEF s5
<1>17. s5 \in Seq(Ops) /\ Len(s5) = 15 + 3 * M
  BY <1>7, <1>16 DEF Joined
<1>18. Joined(Ops, s6, s5, 15 + 3 * M, p4, 3)
  BY <1>4, <1>7, <1>17, Concat
<1> HIDE DEF s6
<1>19. Len(s6) = 18 + 3 * M /\ \A i \in 1 .. 15 + 3 * M : s6[i] = s5[i]
  BY <1>7, <1>18 DEF Joined
<1>20. \A i \in 1 .. 15 + 2 * M : s6[i] = s4[i]
  <2>1. \A i \in 1 .. 15 + 2 * M : s5[i] = s4[i] /\ i \in 1 .. 15 + 3 * M
    BY <1>5, <1>16 DEF Joined
  <2> QED  BY <1>19, <2>1
<1>21. \A i \in 1 .. 13 + 2 * M : s6[i] = s3[i]
  <2>1. \A i \in 1 .. 13 + 2 * M : s4[i] = s3[i] /\ i \in 1 .. 15 + 2 * M
    BY <1>5, <1>14 DEF Joined
  <2> QED  BY <1>20, <2>1
<1>22. \A i \in 1 .. 13 + M : s6[i] = s2[i]
  <2>1. \A i \in 1 .. 13 + M : s3[i] = s2[i] /\ i \in 1 .. 13 + 2 * M
    BY <1>5, <1>12 DEF Joined
  <2> QED  BY <1>21, <2>1
<1>23. \A i \in 1 .. 5 + M : s6[i] = s1[i]
  <2>1. \A i \in 1 .. 5 + M : s2[i] = s1[i] /\ i \in 1 .. 13 + M
    BY <1>5, <1>10 DEF Joined
  <2> QED  BY <1>22, <2>1
<1>24. /\ s6[1] = Op("clean", "") /\ s6[2] = Op("rest", "")
       /\ s6[3] = Op("remove", "") /\ s6[4] = Op("start", "server")
       /\ s6[5] = Op("start", "receiver")
  <2>1. \A i \in 1 .. 5 : s1[i] = p1[i] /\ i \in 1 .. 5 + M
    BY <1>5, <1>8 DEF Joined
  <2>2. \A i \in 1 .. 5 : s6[i] = p1[i]
    BY <1>23, <2>1
  <2>3. /\ s6[1] = p1[1] /\ s6[2] = p1[2] /\ s6[3] = p1[3]
        /\ s6[4] = p1[4] /\ s6[5] = p1[5]
    BY <2>2
  <2> QED  BY <1>2, <2>3
<1>25. plan.monitored => s6[6] = Op("start", "monitor")
  <2> SUFFICES ASSUME plan.monitored
               PROVE  s6[6] = Op("start", "monitor")
    OBVIOUS
  <2>1. s1[5 + 1] = m1[1] /\ 5 + 1 = 6 /\ 6 \in 1 .. 5 + M
    BY <1>5, <1>8 DEF Joined
  <2> QED  BY <1>5, <1>23, <2>1
<1>26. \A i \in 1 .. 8 : s6[(5 + M) + i] = p2[i]
  <2>1. \A i \in 1 .. 8 : s2[(5 + M) + i] = p2[i]
                          /\ (5 + M) + i \in 1 .. 13 + M
    BY <1>5, <1>10 DEF Joined
  <2> QED  BY <1>22, <2>1
<1>27. /\ s6[6 + M] = Op("start", "gateway") /\ s6[7 + M] = Op("rest", "")
       /\ s6[8 + M] = Op("await", "gateway")
       /\ s6[9 + M] = Op("await", "receiver")
       /\ s6[10 + M] = Op("traffic", "") /\ s6[11 + M] = Op("rest", "")
       /\ s6[12 + M] = Op("signal", "gateway")
       /\ s6[13 + M] = Op("signal", "receiver")
  <2>1. /\ (5 + M) + 1 = 6 + M /\ (5 + M) + 2 = 7 + M /\ (5 + M) + 3 = 8 + M
        /\ (5 + M) + 4 = 9 + M /\ (5 + M) + 5 = 10 + M
        /\ (5 + M) + 6 = 11 + M /\ (5 + M) + 7 = 12 + M
        /\ (5 + M) + 8 = 13 + M
    BY <1>5
  <2>2. /\ s6[(5 + M) + 1] = p2[1] /\ s6[(5 + M) + 2] = p2[2]
        /\ s6[(5 + M) + 3] = p2[3] /\ s6[(5 + M) + 4] = p2[4]
        /\ s6[(5 + M) + 5] = p2[5] /\ s6[(5 + M) + 6] = p2[6]
        /\ s6[(5 + M) + 7] = p2[7] /\ s6[(5 + M) + 8] = p2[8]
    BY <1>26
  <2> QED  BY <1>3, <2>1, <2>2
<1>28. plan.monitored => s6[15] = Op("signal", "monitor")
  <2> SUFFICES ASSUME plan.monitored
               PROVE  s6[15] = Op("signal", "monitor")
    OBVIOUS
  <2>1. s3[(13 + M) + 1] = m2[1] /\ (13 + M) + 1 = 15
        /\ 15 \in 1 .. 13 + 2 * M
    BY <1>5, <1>12 DEF Joined
  <2> QED  BY <1>5, <1>21, <2>1
<1>29. /\ s6[14 + 2 * M] = Op("collect", "gateway")
       /\ s6[15 + 2 * M] = Op("collect", "receiver")
  <2>1. /\ s4[(13 + 2 * M) + 1] = p3[1] /\ s4[(13 + 2 * M) + 2] = p3[2]
        /\ (13 + 2 * M) + 1 = 14 + 2 * M /\ (13 + 2 * M) + 2 = 15 + 2 * M
        /\ 14 + 2 * M \in 1 .. 15 + 2 * M /\ 15 + 2 * M \in 1 .. 15 + 2 * M
    BY <1>5, <1>14 DEF Joined
  <2> QED  BY <1>4, <1>20, <2>1
<1>30. plan.monitored => s6[18] = Op("collect", "monitor")
  <2> SUFFICES ASSUME plan.monitored
               PROVE  s6[18] = Op("collect", "monitor")
    OBVIOUS
  <2>1. s5[(15 + 2 * M) + 1] = m3[1] /\ (15 + 2 * M) + 1 = 18
        /\ 18 \in 1 .. 15 + 3 * M
    BY <1>5, <1>16 DEF Joined
  <2> QED  BY <1>5, <1>19, <2>1
<1>31. /\ s6[16 + 3 * M] = Op("pkill", "server")
       /\ s6[17 + 3 * M] = Op("collect", "server")
       /\ s6[18 + 3 * M] = Op("judge", "")
  <2>1. /\ s6[(15 + 3 * M) + 1] = p4[1] /\ s6[(15 + 3 * M) + 2] = p4[2]
        /\ s6[(15 + 3 * M) + 3] = p4[3]
        /\ (15 + 3 * M) + 1 = 16 + 3 * M /\ (15 + 3 * M) + 2 = 17 + 3 * M
        /\ (15 + 3 * M) + 3 = 18 + 3 * M
    BY <1>5, <1>18 DEF Joined
  <2> QED  BY <1>4, <2>1
<1>32. ScriptTable(s6)
  BY <1>19, <1>24, <1>25, <1>27, <1>28, <1>29, <1>30, <1>31 DEF ScriptTable
<1> QED  BY <1>6, <1>32

\* The same for the finally.
FinallyTable(fs) ==
  /\ Len(fs) = 6 + 2 * M
  /\ fs[1] = Op("signal", "gateway") /\ fs[2] = Op("signal", "receiver")
  /\ plan.monitored => fs[3] = Op("signal", "monitor")
  /\ fs[3 + M] = Op("pkill", "server") /\ fs[4 + M] = Op("collect", "server")
  /\ fs[5 + M] = Op("collect", "receiver")
  /\ plan.monitored => fs[7] = Op("collect", "monitor")
  /\ fs[6 + 2 * M] = Op("collect", "gateway")

\* Which operation stands at which place of its finally.
LEMMA FinallyIs == FinallyTable(Finally)
<1> DEFINE p1 == <<Op("signal", "gateway"), Op("signal", "receiver")>>
           m1 == MonitorOnly(plan.monitored, "signal")
           p2 == <<Op("pkill", "server"), Op("collect", "server"),
                   Op("collect", "receiver")>>
           m2 == MonitorOnly(plan.monitored, "collect")
           p3 == <<Op("collect", "gateway")>>
           s1 == p1 \o m1
           s2 == s1 \o p2
           s3 == s2 \o m2
           s4 == s3 \o p3
<1>1. /\ p1 \in Seq(Ops) /\ Len(p1) = 2
      /\ p1[1] = Op("signal", "gateway") /\ p1[2] = Op("signal", "receiver")
      /\ p2 \in Seq(Ops) /\ Len(p2) = 3
      /\ p2[1] = Op("pkill", "server") /\ p2[2] = Op("collect", "server")
      /\ p2[3] = Op("collect", "receiver")
      /\ p3 \in Seq(Ops) /\ Len(p3) = 1 /\ p3[1] = Op("collect", "gateway")
  <2>1. /\ Op("signal", "gateway") \in Ops /\ Op("signal", "receiver") \in Ops
        /\ Op("pkill", "server") \in Ops /\ Op("collect", "server") \in Ops
        /\ Op("collect", "receiver") \in Ops
        /\ Op("collect", "gateway") \in Ops
    BY OpsAre DEF OpNames, OpRoles
  <2> QED  BY <2>1
<1>2. /\ m1 \in Seq(Ops) /\ Len(m1) = M
      /\ plan.monitored => m1[1] = Op("signal", "monitor")
      /\ m2 \in Seq(Ops) /\ Len(m2) = M
      /\ plan.monitored => m2[1] = Op("collect", "monitor")
      /\ M \in 0 .. 1 /\ M \in Nat /\ (plan.monitored => M = 1)
  BY MonitorOps DEF OpNames
<1>3. Finally = s4
  BY DEF Finally, FinallyMonitored, FinallyPlain, FinallyOf, MonitorOnly
<1> HIDE DEF p1, p2, p3, m1, m2
<1>4. /\ 2 + M \in Nat /\ 5 + M \in Nat /\ 5 + 2 * M \in Nat
      /\ (2 + M) + 3 = 5 + M /\ (5 + M) + M = 5 + 2 * M
      /\ (5 + 2 * M) + 1 = 6 + 2 * M
  BY <1>2
<1>5. Joined(Ops, s1, p1, 2, m1, M)
  BY <1>1, <1>2, Concat
<1> HIDE DEF s1
<1>6. s1 \in Seq(Ops) /\ Len(s1) = 2 + M
  BY <1>5 DEF Joined
<1>7. Joined(Ops, s2, s1, 2 + M, p2, 3)
  BY <1>1, <1>4, <1>6, Concat
<1> HIDE DEF s2
<1>8. s2 \in Seq(Ops) /\ Len(s2) = 5 + M
  BY <1>4, <1>7 DEF Joined
<1>9. Joined(Ops, s3, s2, 5 + M, m2, M)
  BY <1>2, <1>4, <1>8, Concat
<1> HIDE DEF s3
<1>10. s3 \in Seq(Ops) /\ Len(s3) = 5 + 2 * M
  BY <1>4, <1>9 DEF Joined
<1>11. Joined(Ops, s4, s3, 5 + 2 * M, p3, 1)
  BY <1>1, <1>4, <1>10, Concat
<1> HIDE DEF s4
<1>12. Len(s4) = 6 + 2 * M /\ \A i \in 1 .. 5 + 2 * M : s4[i] = s3[i]
  BY <1>4, <1>11 DEF Joined
<1>13. \A i \in 1 .. 5 + M : s4[i] = s2[i]
  <2>1. \A i \in 1 .. 5 + M : s3[i] = s2[i] /\ i \in 1 .. 5 + 2 * M
    BY <1>2, <1>9 DEF Joined
  <2> QED  BY <1>12, <2>1
<1>14. \A i \in 1 .. 2 + M : s4[i] = s1[i]
  <2>1. \A i \in 1 .. 2 + M : s2[i] = s1[i] /\ i \in 1 .. 5 + M
    BY <1>2, <1>7 DEF Joined
  <2> QED  BY <1>13, <2>1
<1>15. s4[1] = Op("signal", "gateway") /\ s4[2] = Op("signal", "receiver")
  <2>1. \A i \in 1 .. 2 : s1[i] = p1[i] /\ i \in 1 .. 2 + M
    BY <1>2, <1>5 DEF Joined
  <2>2. s4[1] = p1[1] /\ s4[2] = p1[2]
    BY <1>14, <2>1
  <2> QED  BY <1>1, <2>2
<1>16. plan.monitored => s4[3] = Op("signal", "monitor")
  <2> SUFFICES ASSUME plan.monitored
               PROVE  s4[3] = Op("signal", "monitor")
    OBVIOUS
  <2>1. s1[2 + 1] = m1[1] /\ 2 + 1 = 3 /\ 3 \in 1 .. 2 + M
    BY <1>2, <1>5 DEF Joined
  <2> QED  BY <1>2, <1>14, <2>1
<1>17. /\ s4[3 + M] = Op("pkill", "server")
       /\ s4[4 + M] = Op("collect", "server")
       /\ s4[5 + M] = Op("collect", "receiver")
  <2>1. /\ s2[(2 + M) + 1] = p2[1] /\ s2[(2 + M) + 2] = p2[2]
        /\ s2[(2 + M) + 3] = p2[3]
    BY <1>7 DEF Joined
  <2>2. /\ (2 + M) + 1 = 3 + M /\ (2 + M) + 2 = 4 + M /\ (2 + M) + 3 = 5 + M
        /\ 3 + M \in 1 .. 5 + M /\ 4 + M \in 1 .. 5 + M
        /\ 5 + M \in 1 .. 5 + M
    BY <1>2
  <2> QED  BY <1>1, <1>13, <2>1, <2>2
<1>18. plan.monitored => s4[7] = Op("collect", "monitor")
  <2> SUFFICES ASSUME plan.monitored
               PROVE  s4[7] = Op("collect", "monitor")
    OBVIOUS
  <2>1. s3[(5 + M) + 1] = m2[1] /\ (5 + M) + 1 = 7 /\ 7 \in 1 .. 5 + 2 * M
    BY <1>2, <1>9 DEF Joined
  <2> QED  BY <1>2, <1>12, <2>1
<1>19. s4[6 + 2 * M] = Op("collect", "gateway")
  <2>1. s4[(5 + 2 * M) + 1] = p3[1]
    BY <1>11 DEF Joined
  <2> QED  BY <1>1, <1>4, <2>1
<1>20. FinallyTable(s4)
  BY <1>12, <1>15, <1>16, <1>17, <1>18, <1>19 DEF FinallyTable
<1> QED  BY <1>3, <1>20

-----------------------------------------------------------------------------
(* The inductive invariant *)

\* The programs that are told to stop by their pid file.
Tunnel == {"gateway", "receiver"}
StartPlace(r) == CASE r = "server" -> 4 [] r = "receiver" -> 5
                   [] r = "gateway" -> 6 + M
AwaitPlace(r) == IF r = "gateway" THEN 8 + M ELSE 9 + M
TrafficPlace == 10 + M
SignalPlace(r) == IF r = "gateway" THEN 12 + M ELSE 13 + M
CollectPlace(r) == IF r = "gateway" THEN 14 + 2 * M ELSE 15 + 2 * M
FinalSignal(r) == CASE r = "gateway" -> 1 [] r = "receiver" -> 2
                    [] r = "server" -> 3 + M
FinalCollect(r) == CASE r = "gateway" -> 6 + 2 * M
                     [] r = "receiver" -> 5 + M [] r = "server" -> 4 + M

TryAt(n) == runner.in = "try" /\ runner.at = n
TryPast(n) == runner.in = "try" /\ runner.at > n
FinallyAt(n) == runner.in = "finally" /\ runner.at = n
\* The n-th place of the body has been reached, or the traffic.
Reached(n) == (runner.in = "try" /\ runner.at >= n) \/ generator # "off"
\* The finally of an attempt whose traffic was timed.
Over(n) == runner.in = "finally" /\ generator = "timed" /\ runner.at > n

StageNames == {"none", "gone", "shell", "options", "queue", "ports", "bind",
               "signals", "test", "about", "wait", "statistics", "summary",
               "release"}
ProgramState == [at : StageNames, stop : BOOLEAN, count : Nat,
                 logged : BOOLEAN, attached : BOOLEAN,
                 figures : NoFigures .. MaxAttempts]
Settled == {"gone", "test", "about", "wait", "statistics", "summary",
            "release"}
Leaving == {"test", "wait", "statistics", "summary", "release"}
Early == {"none", "shell", "options", "queue", "ports", "bind", "signals"}

\* Where the runner may stand.
Somewhere == \/ runner = Idle
             \/ runner \in [in : {"try"}, at : 1 .. 18 + 3 * M]
             \/ runner \in [in : {"finally"}, at : 1 .. 6 + 2 * M]

\* The types of the variables, and that the channels hold nothing that was
\* not sent.
Types ==
  /\ plan \in Plans /\ attempt \in 0 .. plan.attempts
  /\ status \in {"none", "running", "valid", "failed"}
  /\ Somewhere
  /\ prog \in [Roles -> [Attempts -> ProgramState]]
  /\ pidFile \in [{"gateway", "receiver", "monitor"} -> 0 .. MaxAttempts]
  /\ csv \in [Tunnel -> [by : 0 .. MaxAttempts, count : Nat]]
  /\ generator \in {"off", "on", "done", "timed", "failed"}
  /\ sent \in 0 .. Target /\ inWindow \in BOOLEAN
  /\ queue \in Nat /\ wire \in Nat /\ out \in Nat
  /\ queue + wire + out <= sent /\ kills \in Nat
  /\ metricsFile \in NoFile .. MaxAttempts
  /\ monitorAt \in [Monitors -> {"none", "shell", "measure", "publish",
                                 "gone"}]

\* What holds of every program whatever the runner does.
Programs1(r, a) ==
  /\ At(r, a) \in Seen(r) \cup {"none", "gone"}
  /\ At(r, a) = "none" => prog[r][a] = NoProgram
  /\ a > attempt => At(r, a) = "none"
  /\ At(r, a) \in Early => prog[r][a].count = 0
  /\ prog[r][a].logged /\ r # "server" =>
       At(r, a) \in {"summary", "release", "gone"}
  /\ prog[r][a].logged => At(r, a) \notin Early
Sound == \A r \in Roles, a \in Attempts : Programs1(r, a)

\* One program at a time holds a queue or a port.
Exclusive ==
  \A r \in Roles : \A a, b \in Attempts : Held(r, a) /\ Held(r, b) => a = b

\* How far the attempt has come: the traffic, and who was started.
Course ==
  /\ attempt = 0 => runner = Idle /\ generator = "off"
  /\ attempt = 0 => status = "none"
  /\ runner.in = "try" /\ runner.at < TrafficPlace => generator = "off"
  /\ TryPast(TrafficPlace) => generator = "timed"
  /\ generator = "on" => TryAt(TrafficPlace)
  /\ generator = "off" =>
       sent = 0 /\ (attempt > 0 =>
                      \A r \in Roles : prog[r][attempt].count = 0)
  /\ \A r \in Roles : runner.in = "try" /\ runner.at <= StartPlace(r) =>
       At(r, attempt) = "none"

\* After the pkill, every program alive has been told to stop.
Cleaning ==
  TryAt(2) =>
    \A r \in Roles, a \in Attempts : Alive(r, a) =>
      /\ prog[r][a].stop
      /\ At(r, a) \in Leaving \cup {"about"} \/ r = "server"

Served(r) == Held(r, attempt) \/ prog[r][attempt].logged

\* After the rest that follows it, an earlier attempt's program is on its way
\* out, holds nothing, and is told to stop; without failing receives it is
\* still in its loop while the new attempt starts.
OldStop ==
  Reached(3) =>
    \A r \in Roles, a \in Attempts : a # attempt /\ Alive(r, a) =>
      /\ r # "server" /\ prog[r][a].stop /\ At(r, a) \in Leaving
      /\ ~Served(r)
      /\ ~MayFail("receive") /\ generator = "off" /\ runner.in = "try"
           => At(r, a) = "wait"

\* After the rm -f a pid file names this attempt's program or nobody, and
\* after the wait for that program it names it.
Named ==
  \A r \in Tunnel :
    /\ Reached(4) => /\ pidFile[r] \in {0, attempt}
                     /\ pidFile[r] = attempt => At(r, attempt) \notin {"none", "shell"}
    /\ Reached(AwaitPlace(r) + 1) =>
         pidFile[r] = attempt /\ At(r, attempt) \in Settled

Dead(r) == ~Alive(r, attempt)
Told(r) == Dead(r) \/ prog[r][attempt].stop

\* Signalled programs were told to stop, collected ones have left their loop,
\* and after the finally all are gone.
Stopping ==
  /\ \A r \in Tunnel :
       /\ TryPast(SignalPlace(r)) => Told(r)
       /\ TryPast(CollectPlace(r)) \/ Over(0) =>
            Told(r) /\ At(r, attempt) # "about"
       /\ Over(FinalSignal(r)) =>
            Told(r) /\ At(r, attempt) \notin {"about", "wait"}
  /\ Over(FinalSignal("server")) => Told("server")
  /\ \A r \in Roles :
       Over(FinalCollect(r)) \/ (runner = Idle /\ generator = "timed"
                                  /\ kills = 0) => Dead(r)

\* No program counts more packets than the one before it passed on.
Chain ==
  generator # "off" =>
    /\ Served("gateway") =>
         prog["gateway"][attempt].count + queue <= sent
    /\ Served("gateway") /\ Served("receiver") =>
         prog["receiver"][attempt].count + wire
           <= prog["gateway"][attempt].count
    /\ Served("receiver") =>
         prog["server"][attempt].count + out
           <= prog["receiver"][attempt].count

\* A collected program has gone, or its log will not grow into a good one.
Logs ==
  \A r \in Tunnel : TryPast(CollectPlace(r)) =>
    \/ At(r, attempt) = "gone"
    \/ ~prog[r][attempt].attached /\ ~prog[r][attempt].logged

\* Whose the summary in a csv file is.
Summaries ==
  \A r \in Tunnel :
    /\ csv[r].by <= attempt
    /\ Reached(4) =>
       /\ csv[r].by = attempt => /\ At(r, attempt) \in {"release", "gone"}
                                 /\ csv[r].count = prog[r][attempt].count
       /\ plan.mode = "full" /\ ~MayFail("summary")
            /\ prog[r][attempt].logged
            /\ At(r, attempt) \in {"release", "gone"} => csv[r].by = attempt
       /\ ~MayFail("receive") =>
            /\ Served(r) => csv[r].by \in {0, attempt}
            /\ generator = "off" /\ runner.in = "try" =>
                 /\ csv[r].by = 0 /\ ~prog[r][attempt].stop
                 /\ At(r, attempt) \notin {"statistics", "summary", "release"}

\* What a verdict of valid rests on.
Judged ==
  status = "valid" =>
    /\ runner.in # "try" /\ generator = "timed"
    /\ \A r \in Roles : prog[r][attempt].logged
    /\ \A r \in Tunnel : At(r, attempt) = "gone"
                         /\ (plan.mode = "full" => csv[r].by # 0)
    /\ Fixed =>
         /\ sent = Target
         /\ plan.mode = "full" => csv["receiver"].count = Target
         /\ plan.mode # "full" => prog["receiver"][attempt].count = Target
                                  /\ prog["server"][attempt].count = Target

\* The inductive invariant.
ExpInv == /\ Types /\ Sound /\ Exclusive /\ Course /\ Cleaning /\ OldStop
          /\ Named /\ Stopping /\ Chain /\ Logs /\ Summaries /\ Judged

-----------------------------------------------------------------------------
(* Which operation is at which place *)

\* The monitor adds one place to each part of a script, or none.
LEMMA MIs == M \in {0, 1} /\ M \in Nat /\ (plan.monitored <=> M = 1)
  BY DEF M

\* What the i-th operation of the body is, and of the finally.
TryOp(i, o, r) ==
  \/ i = 1 /\ o = "clean" /\ r = ""
  \/ i \in {2, 7 + M, 11 + M} /\ o = "rest" /\ r = ""
  \/ i = 3 /\ o = "remove" /\ r = ""
  \/ i = 4 /\ o = "start" /\ r = "server"
  \/ i = 5 /\ o = "start" /\ r = "receiver"
  \/ M = 1 /\ i = 6 /\ o = "start" /\ r = "monitor"
  \/ i = 6 + M /\ o = "start" /\ r = "gateway"
  \/ i = 8 + M /\ o = "await" /\ r = "gateway"
  \/ i = 9 + M /\ o = "await" /\ r = "receiver"
  \/ i = 10 + M /\ o = "traffic" /\ r = ""
  \/ i = 12 + M /\ o = "signal" /\ r = "gateway"
  \/ i = 13 + M /\ o = "signal" /\ r = "receiver"
  \/ M = 1 /\ i = 15 /\ o = "signal" /\ r = "monitor"
  \/ i = 14 + 2 * M /\ o = "collect" /\ r = "gateway"
  \/ i = 15 + 2 * M /\ o = "collect" /\ r = "receiver"
  \/ M = 1 /\ i = 18 /\ o = "collect" /\ r = "monitor"
  \/ i = 16 + 3 * M /\ o = "pkill" /\ r = "server"
  \/ i = 17 + 3 * M /\ o = "collect" /\ r = "server"
  \/ i = 18 + 3 * M /\ o = "judge" /\ r = ""

FinallyOp(i, o, r) ==
  \/ i = 1 /\ o = "signal" /\ r = "gateway"
  \/ i = 2 /\ o = "signal" /\ r = "receiver"
  \/ M = 1 /\ i = 3 /\ o = "signal" /\ r = "monitor"
  \/ i = 3 + M /\ o = "pkill" /\ r = "server"
  \/ i = 4 + M /\ o = "collect" /\ r = "server"
  \/ i = 5 + M /\ o = "collect" /\ r = "receiver"
  \/ M = 1 /\ i = 7 /\ o = "collect" /\ r = "monitor"
  \/ i = 6 + 2 * M /\ o = "collect" /\ r = "gateway"

\* Every place of the body holds one of the operations of the table.
LEMMA TryOpIs ==
  ASSUME NEW i \in 1 .. 18 + 3 * M
  PROVE  \E o \in OpNames, r \in OpRoles : Script[i] = Op(o, r)
                                           /\ TryOp(i, o, r)
<1> DEFINE Ok(j) == \E o \in OpNames, r \in OpRoles :
                      Script[j] = Op(o, r) /\ TryOp(j, o, r)
<1>1. M \in {0, 1}
  BY MIs
<1>2. /\ i \in 1 .. 5 => Ok(i)
      /\ i \in 6 + M .. 13 + M => Ok(i)
      /\ i \in 14 + 2 * M .. 15 + 2 * M => Ok(i)
      /\ i \in 16 + 3 * M .. 18 + 3 * M => Ok(i)
      /\ M = 1 /\ i \in {6, 15, 18} => Ok(i)
  <2>1. Ok(1) /\ Ok(2) /\ Ok(3) /\ Ok(4) /\ Ok(5)
    <3>1. /\ Script[1] = Op("clean", "") /\ TryOp(1, "clean", "")
          /\ Script[2] = Op("rest", "") /\ TryOp(2, "rest", "")
          /\ Script[3] = Op("remove", "") /\ TryOp(3, "remove", "")
          /\ Script[4] = Op("start", "server") /\ TryOp(4, "start", "server")
          /\ Script[5] = Op("start", "receiver")
          /\ TryOp(5, "start", "receiver")
      BY ScriptIs DEF ScriptTable, TryOp
    <3> QED  BY <3>1 DEF OpNames, OpRoles
  <2>2. /\ Ok(6 + M) /\ Ok(7 + M) /\ Ok(8 + M) /\ Ok(9 + M) /\ Ok(10 + M)
        /\ Ok(11 + M) /\ Ok(12 + M) /\ Ok(13 + M)
    <3>1. /\ Script[6 + M] = Op("start", "gateway")
          /\ TryOp(6 + M, "start", "gateway")
          /\ Script[7 + M] = Op("rest", "") /\ TryOp(7 + M, "rest", "")
          /\ Script[8 + M] = Op("await", "gateway")
          /\ TryOp(8 + M, "await", "gateway")
          /\ Script[9 + M] = Op("await", "receiver")
          /\ TryOp(9 + M, "await", "receiver")
      BY ScriptIs DEF ScriptTable, TryOp
    <3>2. /\ Script[10 + M] = Op("traffic", "")
          /\ TryOp(10 + M, "traffic", "")
          /\ Script[11 + M] = Op("rest", "") /\ TryOp(11 + M, "rest", "")
          /\ Script[12 + M] = Op("signal", "gateway")
          /\ TryOp(12 + M, "signal", "gateway")
          /\ Script[13 + M] = Op("signal", "receiver")
          /\ TryOp(13 + M, "signal", "receiver")
      BY ScriptIs DEF ScriptTable, TryOp
    <3> QED  BY <3>1, <3>2 DEF OpNames, OpRoles
  <2>3. Ok(14 + 2 * M) /\ Ok(15 + 2 * M)
    <3>1. /\ Script[14 + 2 * M] = Op("collect", "gateway")
          /\ TryOp(14 + 2 * M, "collect", "gateway")
          /\ Script[15 + 2 * M] = Op("collect", "receiver")
          /\ TryOp(15 + 2 * M, "collect", "receiver")
      BY ScriptIs DEF ScriptTable, TryOp
    <3> QED  BY <3>1 DEF OpNames, OpRoles
  <2>4. Ok(16 + 3 * M) /\ Ok(17 + 3 * M) /\ Ok(18 + 3 * M)
    <3>1. /\ Script[16 + 3 * M] = Op("pkill", "server")
          /\ TryOp(16 + 3 * M, "pkill", "server")
          /\ Script[17 + 3 * M] = Op("collect", "server")
          /\ TryOp(17 + 3 * M, "collect", "server")
          /\ Script[18 + 3 * M] = Op("judge", "")
          /\ TryOp(18 + 3 * M, "judge", "")
      BY ScriptIs DEF ScriptTable, TryOp
    <3> QED  BY <3>1 DEF OpNames, OpRoles
  <2>5. M = 1 => Ok(6) /\ Ok(15) /\ Ok(18)
    <3>1. M = 1 => /\ Script[6] = Op("start", "monitor")
                   /\ TryOp(6, "start", "monitor")
                   /\ Script[15] = Op("signal", "monitor")
                   /\ TryOp(15, "signal", "monitor")
                   /\ Script[18] = Op("collect", "monitor")
                   /\ TryOp(18, "collect", "monitor")
      BY ScriptIs, MIs DEF ScriptTable, TryOp
    <3> QED  BY <3>1 DEF OpNames, OpRoles
  <2> HIDE DEF Ok
  <2>6. i \in 1 .. 5 => i \in {1, 2, 3, 4, 5}
    OBVIOUS
  <2>7. i \in 6 + M .. 13 + M => i \in {6 + M, 7 + M, 8 + M, 9 + M, 10 + M,
                                        11 + M, 12 + M, 13 + M}
    BY <1>1
  <2>8. i \in 14 + 2 * M .. 15 + 2 * M => i \in {14 + 2 * M, 15 + 2 * M}
    BY <1>1
  <2>9. i \in 16 + 3 * M .. 18 + 3 * M =>
          i \in {16 + 3 * M, 17 + 3 * M, 18 + 3 * M}
    BY <1>1
  <2> QED  BY <2>1, <2>2, <2>3, <2>4, <2>5, <2>6, <2>7, <2>8, <2>9
<1> HIDE DEF Ok
<1>3. \/ i \in 1 .. 5 \/ i \in 6 + M .. 13 + M
      \/ i \in 14 + 2 * M .. 15 + 2 * M \/ i \in 16 + 3 * M .. 18 + 3 * M
      \/ M = 1 /\ i \in {6, 15, 18}
  BY <1>1
<1>4. Ok(i)
  BY <1>2, <1>3
<1> QED  BY <1>4 DEF Ok

\* Every place of the finally holds one of the operations of its table.
LEMMA FinallyOpIs ==
  ASSUME NEW i \in 1 .. 6 + 2 * M
  PROVE  \E o \in OpNames, r \in OpRoles : Finally[i] = Op(o, r)
                                           /\ FinallyOp(i, o, r)
<1> DEFINE Ok(j) == \E o \in OpNames, r \in OpRoles :
                      Finally[j] = Op(o, r) /\ FinallyOp(j, o, r)
<1>1. M \in {0, 1}
  BY MIs
<1>2. /\ Ok(1) /\ Ok(2) /\ Ok(3 + M) /\ Ok(4 + M) /\ Ok(5 + M)
      /\ Ok(6 + 2 * M)
  <2>1. /\ Finally[1] = Op("signal", "gateway")
        /\ FinallyOp(1, "signal", "gateway")
        /\ Finally[2] = Op("signal", "receiver")
        /\ FinallyOp(2, "signal", "receiver")
        /\ Finally[3 + M] = Op("pkill", "server")
        /\ FinallyOp(3 + M, "pkill", "server")
        /\ Finally[4 + M] = Op("collect", "server")
        /\ FinallyOp(4 + M, "collect", "server")
        /\ Finally[5 + M] = Op("collect", "receiver")
        /\ FinallyOp(5 + M, "collect", "receiver")
        /\ Finally[6 + 2 * M] = Op("collect", "gateway")
        /\ FinallyOp(6 + 2 * M, "collect", "gateway")
    BY FinallyIs DEF FinallyTable, FinallyOp
  <2> QED  BY <2>1 DEF OpNames, OpRoles
<1>3. M = 1 => Ok(3) /\ Ok(7)
  <2>1. M = 1 => /\ Finally[3] = Op("signal", "monitor")
                 /\ FinallyOp(3, "signal", "monitor")
                 /\ Finally[7] = Op("collect", "monitor")
                 /\ FinallyOp(7, "collect", "monitor")
    BY FinallyIs, MIs DEF FinallyTable, FinallyOp
  <2> QED  BY <2>1 DEF OpNames, OpRoles
<1> HIDE DEF Ok
<1>4. \/ i \in {1, 2, 3 + M, 4 + M, 5 + M, 6 + 2 * M}
      \/ M = 1 /\ i \in {3, 7}
  BY <1>1
<1>5. Ok(i)
  BY <1>2, <1>3, <1>4
<1> QED  BY <1>5 DEF Ok

\* What the runner is doing tells where it stands.
LEMMA DoingIs ==
  ASSUME Somewhere, NEW o, NEW r, Doing(o, r)
  PROVE  \/ /\ runner.in = "try" /\ runner.at \in 1 .. 18 + 3 * M
            /\ TryOp(runner.at, o, r)
         \/ /\ runner.in = "finally" /\ runner.at \in 1 .. 6 + 2 * M
            /\ FinallyOp(runner.at, o, r)
<1>1. Idle.in # "try" /\ Idle.in # "finally"
  BY DEF Idle
<1>2. CASE runner.in = "try" /\ Script[runner.at] = Op(o, r)
  <2>1. runner.at \in 1 .. 18 + 3 * M
    BY <1>1, <1>2 DEF Somewhere
  <2>2. PICK o2 \in OpNames, r2 \in OpRoles :
          Script[runner.at] = Op(o2, r2) /\ TryOp(runner.at, o2, r2)
    BY <2>1, TryOpIs
  <2>3. o = o2 /\ r = r2
    BY <1>2, <2>2, OpsAre
  <2> QED  BY <1>2, <2>1, <2>2, <2>3
<1>3. CASE runner.in = "finally" /\ Finally[runner.at] = Op(o, r)
  <2>1. runner.at \in 1 .. 6 + 2 * M
    BY <1>1, <1>3 DEF Somewhere
  <2>2. PICK o2 \in OpNames, r2 \in OpRoles :
          Finally[runner.at] = Op(o2, r2) /\ FinallyOp(runner.at, o2, r2)
    BY <2>1, FinallyOpIs
  <2>3. o = o2 /\ r = r2
    BY <1>3, <2>2, OpsAre
  <2> QED  BY <1>3, <2>1, <2>2, <2>3
<1> QED  BY <1>2, <1>3 DEF Doing

\* One place on, from the end of the body into the finally, and out.
Onwards ==
  \/ /\ runner.in = "try" /\ runner.at < 18 + 3 * M
     /\ runner'.in = "try" /\ runner'.at = runner.at + 1
     /\ runner' \in [in : {"try"}, at : Nat]
  \/ /\ runner.in = "try" /\ runner.at = 18 + 3 * M
     /\ runner'.in = "finally" /\ runner'.at = 1
     /\ runner' \in [in : {"finally"}, at : Nat]
  \/ /\ runner.in = "finally" /\ runner.at < 6 + 2 * M
     /\ runner'.in = "finally" /\ runner'.at = runner.at + 1
     /\ runner' \in [in : {"finally"}, at : Nat]
  \/ /\ runner.in = "finally" /\ runner.at = 6 + 2 * M
     /\ runner' = Idle

\* The runner goes on to the next place, from the body to the finally, or
\* to the end of the attempt.
LEMMA AdvanceIs ==
  ASSUME Somewhere, Advance, runner # Idle
  PROVE  Onwards
<1>1. Len(Script) = 18 + 3 * M /\ Len(Finally) = 6 + 2 * M
  BY ScriptIs, FinallyIs DEF ScriptTable, FinallyTable
<1>2. M \in {0, 1}
  BY MIs
<1>3. CASE runner.in = "try"
  BY <1>1, <1>2, <1>3 DEF Advance, Onwards, Somewhere, Idle
<1>4. CASE runner.in = "finally"
  BY <1>1, <1>2, <1>4 DEF Advance, Onwards, Somewhere, Idle
<1> QED  BY <1>3, <1>4 DEF Somewhere

-----------------------------------------------------------------------------
(* What a step does to a program *)

ProgType == prog \in [Roles -> [Attempts -> ProgramState]]

OthersSame(r, a) ==
  \A r2 \in Roles, a2 \in Attempts :
    r2 # r \/ a2 # a => prog'[r2][a2] = prog[r2][a2]

\* Setting one program leaves the others as they were.
LEMMA SetIs ==
  ASSUME ProgType, NEW r \in Roles, NEW a \in Attempts, NEW p, Set(r, a, p)
  PROVE  /\ prog'[r][a] = p /\ OthersSame(r, a)
         /\ p \in ProgramState => ProgType'
<1>1. prog' = [prog EXCEPT ![r] = [prog[r] EXCEPT ![a] = p]]
  BY DEF Set
<1>2. prog'[r] = [prog[r] EXCEPT ![a] = p]
      /\ \A r2 \in Roles : r2 # r => prog'[r2] = prog[r2]
  BY <1>1 DEF ProgType
<1>3. prog[r] \in [Attempts -> ProgramState]
  BY DEF ProgType
<1>4. prog'[r][a] = p /\ \A a2 \in Attempts : a2 # a => prog'[r][a2] = prog[r][a2]
  BY <1>2, <1>3
<1>5. p \in ProgramState => ProgType'
  BY <1>1, <1>3 DEF ProgType
<1> QED  BY <1>2, <1>4, <1>5 DEF OthersSame

\* How a program in state p may come into state n in one step, other than
\* by being started.
Evolves(r, p, n) ==
  /\ p.at \in {"none", "gone"} => n = p
  /\ p.at # "none" => n.at # "none"
  /\ n.at \in Seen(r) \cup {"none", "gone"}
  /\ n.at = "shell" => p.at = "shell"
  /\ n.at \in Early => p.at \in Early
  /\ n.at \in HeldAt(r) => p.at \in HeldAt(r) \cup {ClaimOf(r)}
  /\ p.at \in Settled => n.at \in Settled
  /\ p.at \in {"summary", "release", "gone"} =>
       n.at \in {"summary", "release", "gone"}
  /\ p.at \in {"release", "gone"} => n.at \in {"release", "gone"}
  /\ p.stop =>
       /\ n.stop
       /\ p.at \in Leaving => n.at \in Leaving \cup {"gone"}
       /\ r # "server" /\ p.at \in Leaving \ {"wait"} => n.at # "wait"
  /\ n.count = p.count \/ (p.at = "wait" /\ n.count = p.count + 1)
  /\ n.attached => p.attached
  /\ p.logged => n.logged
  /\ n.logged /\ ~p.logged => /\ p.attached /\ n.at \notin Early
                              /\ r # "server" => n.at = "summary"
  /\ n.figures = p.figures \/ n.figures \in 0 .. MaxAttempts

\* The moves that change no more than the stage.
Edge(r, s, t) ==
  \/ s = t
  \/ s \in Seen(r) /\ t = "gone" /\ s \in Early \cup {"release"}
  \/ r # "server" /\ s = "shell" /\ t = "options"
  \/ r # "server" /\ s = "options" /\ t = ClaimOf(r)
  \/ r # "server" /\ s = ClaimOf(r) /\ t = "signals"
  \/ r # "server" /\ s = "signals" /\ t = "test"
  \/ r = "server" /\ s = "signals" /\ t = "bind"
  \/ r = "server" /\ s = "bind" /\ t = "wait"
  \/ r # "server" /\ s = "about" /\ t = "wait"
  \/ s = "wait" /\ t = "statistics"
  \/ r # "server" /\ s = "summary" /\ t = "release"

\* A program that moves along an edge of its life and changes nothing else
\* evolves as programs may.
LEMMA EdgeEvolves ==
  ASSUME NEW r \in Roles, NEW p \in ProgramState, NEW n \in ProgramState,
         p.at \in Seen(r), Edge(r, p.at, n.at),
         n.stop = p.stop \/ n.stop, n.count = p.count,
         n.logged = p.logged,
         n.attached = p.attached, n.figures = p.figures
  PROVE  Evolves(r, p, n)
<1> DEFINE s == p.at  t == n.at
<1>1. /\ t \in Seen(r) \cup {"none", "gone"}
      /\ t = "shell" => s = "shell"
      /\ t \in Early => s \in Early
      /\ s # "none" /\ s # "gone" /\ t # "none"
  <2>1. CASE r = "gateway"
    BY <2>1 DEF Edge, Seen, Early, ClaimOf
  <2>2. CASE r = "receiver"
    BY <2>2 DEF Edge, Seen, Early, ClaimOf
  <2>3. CASE r = "server"
    BY <2>3 DEF Edge, Seen, Early, ClaimOf
  <2> QED  BY <2>1, <2>2, <2>3 DEF Roles
<1>2. /\ t \in HeldAt(r) => s \in HeldAt(r) \cup {ClaimOf(r)}
      /\ s \in Settled => t \in Settled
  <2>1. CASE r = "gateway"
    BY <2>1 DEF Edge, Seen, Early, ClaimOf, HeldAt, Settled
  <2>2. CASE r = "receiver"
    BY <2>2 DEF Edge, Seen, Early, ClaimOf, HeldAt, Settled
  <2>3. CASE r = "server"
    BY <2>3 DEF Edge, Seen, Early, ClaimOf, HeldAt, Settled
  <2> QED  BY <2>1, <2>2, <2>3 DEF Roles
<1>3. /\ s \in {"summary", "release", "gone"} =>
           t \in {"summary", "release", "gone"}
      /\ s \in {"release", "gone"} => t \in {"release", "gone"}
      /\ s \in Leaving => t \in Leaving \cup {"gone"}
      /\ r # "server" /\ s \in Leaving \ {"wait"} => t # "wait"
  <2>1. CASE r = "gateway"
    BY <2>1 DEF Edge, Seen, Early, ClaimOf, Leaving
  <2>2. CASE r = "receiver"
    BY <2>2 DEF Edge, Seen, Early, ClaimOf, Leaving
  <2>3. CASE r = "server"
    BY <2>3 DEF Edge, Seen, Early, ClaimOf, Leaving
  <2> QED  BY <2>1, <2>2, <2>3 DEF Roles
<1>4. p.stop \in BOOLEAN /\ n.stop \in BOOLEAN /\ p.logged \in BOOLEAN
  BY DEF ProgramState
<1> QED  BY <1>1, <1>2, <1>3, <1>4 DEF Evolves

\* What TERM does to it.
Termed(r, p, n) ==
  /\ n \in ProgramState /\ Evolves(r, p, n)
  /\ p.at \in {"none", "gone"} => n = p
  /\ p.at \notin {"none", "gone"} =>
       \/ n.at = "gone" /\ p.at \in Early
       \/ n.stop /\ n.at \in (Leaving \ {"wait"}) \cup {"about"}
       \/ n.stop /\ r = "server" /\ n.at = "bind"
  /\ p.at # "about" => n.at # "about"
  /\ n.count = p.count /\ n.logged = p.logged /\ n.attached = p.attached

\* What the signal handlers of the three programs do with a SIGTERM.
LEMMA SignalledIs ==
  ASSUME NEW r \in Roles, NEW p \in ProgramState, NEW n,
         n = Signalled(r, p), p.at \in Seen(r) \cup {"none", "gone"}
  PROVE  Termed(r, p, n)
<1>1. p = [at |-> p.at, stop |-> p.stop, count |-> p.count,
           logged |-> p.logged, attached |-> p.attached,
           figures |-> p.figures]
      /\ p.at \in StageNames /\ p.stop \in BOOLEAN /\ p.count \in Nat
  BY DEF ProgramState
<1>2. CASE p.at \in {"none", "gone"}
  <2>1. n = p
    BY <1>2 DEF Signalled
  <2>2. /\ n.at \in Seen(r) \cup {"none", "gone"}
        /\ n.at \notin HeldAt(r) /\ n.at \notin Leaving
        /\ n.at = p.at
    BY <1>2, <2>1 DEF HeldAt, Leaving
  <2>3. Evolves(r, p, n)
    BY <1>1, <1>2, <2>1, <2>2 DEF Evolves
  <2> QED  BY <1>2, <2>1, <2>3 DEF Termed
<1>3. CASE p.at \notin {"none", "gone"}
           /\ (p.at \in {"statistics", "summary", "release", "test", "about"}
               \/ (r = "server" /\ p.at = "bind"))
  <2>1. n = [p EXCEPT !.stop = TRUE]
    BY <1>3 DEF Signalled
  <2>2. /\ n \in ProgramState /\ n.at = p.at /\ n.stop
        /\ n.count = p.count /\ n.logged = p.logged
        /\ n.attached = p.attached /\ n.figures = p.figures
    BY <2>1 DEF ProgramState
  <2>3. Evolves(r, p, n)
    BY <1>3, <2>2, EdgeEvolves DEF Edge
  <2> QED  BY <1>3, <2>2, <2>3 DEF Termed, Leaving
<1>4. CASE p.at = "wait"
  <2>1. n = [p EXCEPT !.stop = TRUE, !.at = "statistics"]
    BY <1>4 DEF Signalled
  <2>2. /\ n \in ProgramState /\ n.at = "statistics" /\ n.stop
        /\ n.count = p.count /\ n.logged = p.logged
        /\ n.attached = p.attached /\ n.figures = p.figures
    BY <2>1 DEF ProgramState, StageNames
  <2>3. Evolves(r, p, n)
    BY <1>4, <2>2, EdgeEvolves DEF Edge
  <2> QED  BY <1>4, <2>2, <2>3 DEF Termed, Leaving
<1>5. CASE /\ p.at \notin {"none", "gone", "wait"}
           /\ p.at \notin {"statistics", "summary", "release", "test", "about"}
           /\ ~(r = "server" /\ p.at = "bind")
  <2>1. n = [p EXCEPT !.at = "gone"]
    BY <1>5 DEF Signalled
  <2>2. /\ n \in ProgramState /\ n.at = "gone" /\ n.stop = p.stop
        /\ n.count = p.count /\ n.logged = p.logged
        /\ n.attached = p.attached /\ n.figures = p.figures
    BY <2>1 DEF ProgramState, StageNames
  <2>3. p.at \in Early
    BY <1>5 DEF Seen, Early, ClaimOf, Roles
  <2>4. Evolves(r, p, n)
    BY <1>5, <2>2, <2>3, EdgeEvolves DEF Edge
  <2> QED  BY <1>5, <2>2, <2>3, <2>4 DEF Termed
<1> QED  BY <1>2, <1>3, <1>4, <1>5

Claims(r, a) ==
  prog'[r][a].at \in HeldAt(r) /\ prog[r][a].at \notin HeldAt(r) =>
    \A b \in Attempts \ {a} : ~Held(r, b)
Passes(r, a) ==
  \/ /\ prog'[r][a].count = prog[r][a].count
     /\ queue' \in {0, queue} /\ wire' \in {0, wire} /\ out' \in {0, out}
  \/ /\ prog'[r][a].count = prog[r][a].count + 1 /\ prog[r][a].at = "wait"
     /\ \/ /\ r = "gateway" /\ queue > 0 /\ queue' = queue - 1
           /\ wire' \in {wire, wire + 1} /\ out' = out
        \/ /\ r = "receiver" /\ wire > 0 /\ wire' = wire - 1
           /\ out' \in {out, out + 1} /\ queue' = queue
        \/ /\ r = "server" /\ out > 0 /\ out' = out - 1
           /\ queue' = queue /\ wire' = wire
WritesPid(r, a) ==
  \/ pidFile' = pidFile
  \/ /\ r \in Tunnel /\ prog[r][a].at = "shell"
     /\ prog'[r][a].at = "options" /\ pidFile' = [pidFile EXCEPT ![r] = a]
WritesSummary(r, a) ==
  LET own == [by |-> a, count |-> prog[r][a].count]
  IN  \/ /\ csv' = csv
         /\ plan.mode = "full" /\ ~MayFail("summary") =>
              ~(prog[r][a].at = "summary"
                /\ prog'[r][a].at \in {"release", "gone"})
      \/ /\ r \in Tunnel
         /\ prog[r][a].at = "summary" /\ prog'[r][a].at = "release"
         /\ \/ csv' = [csv EXCEPT ![r] = own]
            \/ csv' = [csv EXCEPT ![r] = NoSummary] /\ MayFail("summary")
Unprompted(r, a) ==
  /\ prog'[r][a].stop = prog[r][a].stop
  /\ r # "server" /\ ~MayFail("receive") =>
       /\ ~prog[r][a].stop
          /\ prog[r][a].at \notin {"statistics", "summary", "release"}
            => prog'[r][a].at \notin {"statistics", "summary", "release"}
       /\ prog[r][a].at = "wait" /\ queue = 0 /\ wire = 0
            => prog'[r][a].at = "wait"

StepFacts(r, a) ==
  /\ prog'[r][a] \in ProgramState /\ OthersSame(r, a) /\ ProgType'
  /\ Evolves(r, prog[r][a], prog'[r][a])
  /\ Claims(r, a) /\ Passes(r, a) /\ WritesPid(r, a) /\ WritesSummary(r, a)
  /\ Unprompted(r, a)

\* n is p, but for the stage.
Moved(p, n, s) ==
  /\ n \in ProgramState /\ n.at = s /\ n.stop = p.stop /\ n.count = p.count
  /\ n.logged = p.logged /\ n.attached = p.attached
  /\ n.figures = p.figures

\* Moving one program to a stage changes its stage alone.
LEMMA GoToIs ==
  ASSUME ProgType, NEW r \in Roles, NEW a \in Attempts, NEW s \in StageNames,
         GoTo(r, a, s)
  PROVE  /\ Moved(prog[r][a], prog'[r][a], s) /\ OthersSame(r, a)
         /\ ProgType'
<1> DEFINE p == prog[r][a]
           n == [p EXCEPT !.at = s]
<1>1. p \in ProgramState
  BY DEF ProgType
<1>2. Set(r, a, n)
  BY DEF GoTo
<1>3. n \in ProgramState /\ Moved(p, n, s)
  BY <1>1 DEF ProgramState, Moved
<1> HIDE DEF n
<1>4. prog'[r][a] = n /\ OthersSame(r, a) /\ ProgType'
  BY <1>2, <1>3, SetIs
<1> QED  BY <1>3, <1>4

\* The same summary for the moves that change no more than the stage, pass
\* no packet and write no file.
LEMMA MoveIs ==
  ASSUME Types, NEW r \in Roles, NEW a \in Attempts, NEW s \in StageNames,
         GoTo(r, a, s), prog[r][a].at \in Seen(r),
         Edge(r, prog[r][a].at, s), Claims(r, a),
         ~(prog[r][a].at = "summary" /\ s = "release"),
         s = "statistics" => r = "server" \/ MayFail("receive"),
         s = "release" => prog[r][a].at = "release",
         s # "summary",
         prog[r][a].at = "wait" => s = "statistics",
         pidFile' = pidFile \/ WritesPid(r, a), csv' = csv,
         queue' \in {0, queue}, wire' \in {0, wire}, out' \in {0, out}
  PROVE  StepFacts(r, a)
<1>1. ProgType /\ prog[r][a] \in ProgramState
  BY DEF Types, ProgType
<1>2. /\ Moved(prog[r][a], prog'[r][a], s) /\ OthersSame(r, a) /\ ProgType'
  BY <1>1, GoToIs
<1> DEFINE p == prog[r][a]  n == prog'[r][a]
<1>3. /\ n \in ProgramState /\ n.at = s /\ n.stop = p.stop
      /\ n.count = p.count /\ n.logged = p.logged
      /\ n.attached = p.attached /\ n.figures = p.figures
  BY <1>2 DEF Moved
<1> HIDE DEF n, p
<1>4. Evolves(r, p, n)
  BY <1>1, <1>3, EdgeEvolves DEF p
<1>5. ~(p.at = "summary" /\ n.at \in {"release", "gone"})
  BY <1>3 DEF Edge, Early, p
<1>6. Passes(r, a) /\ WritesPid(r, a) /\ WritesSummary(r, a)
  BY <1>3, <1>5 DEF Passes, WritesPid, WritesSummary, n, p
<1>7. Unprompted(r, a)
  BY <1>3 DEF Unprompted, n, p
<1> QED  BY <1>2, <1>3, <1>4, <1>6, <1>7 DEF StepFacts, n, p

\* The successors of the stages, for both tunnel programs at once.
LEMMA AfterIs ==
  ASSUME plan \in Plans
  PROVE  /\ \A r \in Tunnel :
              /\ Stages(r)[1] = "shell" /\ After(r, "shell") = "options"
              /\ After(r, "options") = ClaimOf(r)
              /\ After(r, ClaimOf(r)) = "signals"
              /\ After(r, "signals") = "test"
              /\ After(r, "statistics") = "summary"
         /\ Stages("server")[1] = "signals"
         /\ After("server", "signals") = "bind"
         /\ After("server", "bind") = "wait"
         /\ After("server", "statistics") = "release"
  BY GatewayStages, ReceiverStages, ServerStages DEF Tunnel, ClaimOf

\* Holding a queue or a port, by the life of the program, is being at one
\* of the stages named in Held.
LEMMA HoldsIs ==
  ASSUME plan \in Plans, Sound
  PROVE  \A r \in Roles, a \in Attempts : Holds(r, a) <=> Held(r, a)
<1> SUFFICES ASSUME NEW r \in Roles, NEW a \in Attempts
             PROVE  Holds(r, a) <=> Held(r, a)
  OBVIOUS
<1>1. At(r, a) \in Seen(r) \cup {"none", "gone"}
  BY DEF Sound, Programs1
<1> QED  BY <1>1, GatewayStages, ReceiverStages, ServerStages DEF Roles

\* h is p after a packet.
Fed(p, h, s, f) ==
  /\ h \in ProgramState /\ h.at = s /\ h.stop = p.stop
  /\ h.count = p.count + 1 /\ h.logged = p.logged
  /\ h.attached = p.attached /\ h.figures = f

\* A program that is given one packet counts one more.
LEMMA FedIs ==
  ASSUME NEW p \in ProgramState, NEW s \in StageNames,
         NEW f \in NoFigures .. MaxAttempts
  PROVE  Fed(p, [p EXCEPT !.at = s, !.count = @ + 1, !.figures = f], s, f)
<1> DEFINE h == [p EXCEPT !.at = s, !.count = @ + 1, !.figures = f]
<1>1. p.count + 1 \in Nat /\ h.count = p.count + 1
  BY DEF ProgramState
<1>2. /\ h.at = s /\ h.stop = p.stop /\ h.logged = p.logged
      /\ h.attached = p.attached /\ h.figures = f
  BY DEF ProgramState
<1>3. h \in ProgramState
  BY <1>1 DEF ProgramState
<1> QED  BY <1>1, <1>2, <1>3 DEF Fed

\* Every step of a program, the failures included, is described by
\* StepFacts.
LEMMA StepIs ==
  ASSUME Types, Sound, NEW r \in Roles, NEW a \in Attempts,
         OwnSteps(r, a) \/ ReceiveFails(r, a)
  PROVE  StepFacts(r, a)
<1> DEFINE p == prog[r][a]  n == prog'[r][a]
<1>0. /\ ProgType /\ p \in ProgramState /\ plan \in Plans
      /\ p.at \in Seen(r) \cup {"none", "gone"} /\ p.at \in StageNames
      /\ p.count \in Nat /\ p.stop \in BOOLEAN
      /\ r \in Tunnel \/ r = "server"
  BY DEF Types, ProgType, Sound, Programs1, At, ProgramState, Roles, Tunnel
<1>1. ASSUME NEW s \in StageNames, GoTo(r, a, s)
      PROVE  Moved(p, n, s)
  BY <1>0, <1>1, GoToIs
<1>2. CASE ShellStep(r, a)
  <2>1. /\ p.at = "shell" /\ pidFile' = [pidFile EXCEPT ![r] = a]
        /\ UNCHANGED <<csv, queue, wire, out>> /\ r \in Tunnel
        /\ "options" \in StageNames
    BY <1>0, <1>2 DEF ShellStep, At, Seen, StageNames
  <2>2. GoTo(r, a, "options")
    BY <1>0, <1>2, <2>1, AfterIs DEF ShellStep
  <2>3. n.at = "options"
    BY <1>1, <2>1, <2>2 DEF Moved
  <2>4. /\ Claims(r, a) /\ WritesPid(r, a)
        /\ Edge(r, p.at, "options") /\ p.at \in Seen(r)
    BY <2>1, <2>3 DEF Claims, WritesPid, Edge, Tunnel, Seen, HeldAt, ClaimOf
  <2> QED  BY <2>1, <2>2, <2>4, MoveIs
<1>3. CASE StartUpStep(r, a)
  <2>1. /\ UNCHANGED <<pidFile, csv, queue, wire, out>>
        /\ p.at = ClaimOf(r) => \A b \in Attempts \ {a} : ~Held(r, b)
    BY <1>0, <1>3, HoldsIs DEF StartUpStep, CanClaim, At
  <2>2. \/ r \in Tunnel /\ p.at \in {"options", ClaimOf(r), "signals"}
        \/ r = "server" /\ p.at \in {"signals", "bind"}
    BY <1>0, <1>3 DEF StartUpStep, StartingUp, Alive, InLoop, Ending, At,
       Seen, Roles, Tunnel
  <2>3. PICK s \in StageNames :
           /\ GoTo(r, a, s) /\ Edge(r, p.at, s)
           /\ s \in {"queue", "ports", "signals", "test", "bind", "wait"}
           /\ s \in HeldAt(r) /\ p.at \notin HeldAt(r) => p.at = ClaimOf(r)
    <3>1. /\ GoTo(r, a, After(r, p.at))
      BY <1>3 DEF StartUpStep, At
    <3>2. CASE r \in Tunnel /\ p.at = "options"
      <4>1. /\ After(r, p.at) = ClaimOf(r) /\ Edge(r, p.at, ClaimOf(r))
            /\ ClaimOf(r) \in {"queue", "ports"}
            /\ ClaimOf(r) \notin HeldAt(r) /\ ClaimOf(r) \in StageNames
        BY <1>0, <3>2, AfterIs DEF Tunnel, ClaimOf, Edge, HeldAt, StageNames
      <4> QED  BY <3>1, <4>1
    <3>3. CASE r \in Tunnel /\ p.at = ClaimOf(r)
      <4>1. After(r, p.at) = "signals" /\ Edge(r, p.at, "signals")
            /\ "signals" \in StageNames
        BY <1>0, <3>3, AfterIs DEF Tunnel, Edge, StageNames
      <4> QED  BY <3>1, <3>3, <4>1
    <3>4. CASE r \in Tunnel /\ p.at = "signals"
      <4>1. /\ After(r, p.at) = "test" /\ Edge(r, p.at, "test")
            /\ p.at \in HeldAt(r) /\ "test" \in StageNames
        BY <1>0, <3>4, AfterIs DEF Tunnel, Edge, StageNames, HeldAt
      <4> QED  BY <3>1, <4>1
    <3>5. CASE r = "server" /\ p.at = "signals"
      <4>1. /\ After(r, p.at) = "bind" /\ Edge(r, p.at, "bind")
            /\ "bind" \notin HeldAt(r) /\ "bind" \in StageNames
        BY <1>0, <3>5, AfterIs DEF Edge, StageNames, HeldAt
      <4> QED  BY <3>1, <4>1
    <3>6. CASE r = "server" /\ p.at = "bind"
      <4>1. /\ After(r, p.at) = "wait" /\ Edge(r, p.at, "wait")
            /\ p.at = ClaimOf(r) /\ "wait" \in StageNames
        BY <1>0, <3>6, AfterIs DEF Edge, StageNames, ClaimOf
      <4> QED  BY <3>1, <4>1
    <3> QED  BY <2>2, <3>2, <3>3, <3>4, <3>5, <3>6
  <2>4. n.at = s
    BY <1>1, <2>3 DEF Moved
  <2>5. Claims(r, a)
    BY <2>1, <2>3, <2>4 DEF Claims
  <2>6. p.at \in Seen(r) /\ p.at \notin {"summary", "wait"}
        /\ s \notin {"summary", "release", "statistics"}
    BY <2>2, <2>3 DEF Seen, Tunnel, ClaimOf
  <2> QED  BY <2>1, <2>3, <2>5, <2>6, MoveIs
<1>4. CASE StartUpFails(r, a)
  <2>1. /\ UNCHANGED <<pidFile, csv, wire, out>> /\ queue' \in {0, queue}
        /\ GoTo(r, a, "gone") /\ "gone" \in StageNames
    BY <1>4 DEF StartUpFails, StageNames
  <2>2. /\ p.at \in Seen(r) /\ p.at \in Early /\ p.at # "none"
        /\ "gone" \notin HeldAt(r) /\ p.at # "wait" /\ p.at # "summary"
    BY <1>0, <1>4 DEF StartUpFails, StartingUp, Alive, InLoop, Ending, At,
       Seen, Roles, Tunnel, Early, ClaimOf, HeldAt
  <2>3. n.at = "gone"
    BY <1>1, <2>1 DEF Moved
  <2>4. Claims(r, a) /\ Edge(r, p.at, "gone")
    BY <2>2, <2>3 DEF Claims, Edge
  <2> QED  BY <2>1, <2>2, <2>4, MoveIs
<1>5. CASE TestStop(r, a)
  <2>1. /\ UNCHANGED <<pidFile, csv, queue, wire, out>> /\ p.at = "test"
        /\ \/ p.stop /\ GoTo(r, a, "statistics")
           \/ ~p.stop /\ GoTo(r, a, "about")
    BY <1>0, <1>5 DEF TestStop, At
  <2>2. p.at \in Seen(r) /\ r # "server" /\ p.at \in HeldAt(r)
    BY <1>0, <2>1 DEF Seen, Tunnel, HeldAt
  <2>3. Claims(r, a) /\ "statistics" \in StageNames /\ "about" \in StageNames
    BY <2>2 DEF Claims, StageNames
  <2>4. CASE p.stop /\ GoTo(r, a, "statistics")
    <3>1. StepFacts(r, a)
      <4>1. ProgType /\ "statistics" \in StageNames
        BY <1>0, <2>3
      <4>2. Moved(p, n, "statistics") /\ OthersSame(r, a) /\ ProgType'
        BY <2>4, <4>1, GoToIs
      <4>3. /\ n \in ProgramState /\ n.at = "statistics" /\ n.stop = p.stop
            /\ n.count = p.count /\ n.logged = p.logged
            /\ n.attached = p.attached /\ n.figures = p.figures
        BY <4>2 DEF Moved
      <4>4. Passes(r, a) /\ WritesPid(r, a) /\ WritesSummary(r, a)
            /\ Unprompted(r, a)
        BY <2>1, <2>4, <4>3
           DEF Passes, WritesPid, WritesSummary, Unprompted
      <4> HIDE DEF p, n
      <4>5. Evolves(r, p, n)
        BY <1>0, <2>1, <2>2, <2>4, <4>3
           DEF Evolves, Seen, HeldAt, Early, Settled, Leaving
      <4> QED  BY <2>3, <4>2, <4>3, <4>4, <4>5 DEF StepFacts, p, n
    <3> QED  BY <3>1
  <2>5. CASE ~p.stop /\ GoTo(r, a, "about")
    <3>1. /\ ProgType /\ "about" \in StageNames
      BY <1>0, <2>3
    <3>2. Moved(p, n, "about") /\ OthersSame(r, a) /\ ProgType'
      BY <2>5, <3>1, GoToIs
    <3>3. /\ n \in ProgramState /\ n.at = "about" /\ n.stop = p.stop
          /\ n.count = p.count /\ n.logged = p.logged
          /\ n.attached = p.attached /\ n.figures = p.figures
      BY <3>2 DEF Moved
    <3>4. Passes(r, a) /\ WritesPid(r, a) /\ WritesSummary(r, a)
          /\ Unprompted(r, a)
      BY <2>1, <3>3 DEF Passes, WritesPid, WritesSummary, Unprompted
    <3> HIDE DEF p, n
    <3>5. Evolves(r, p, n)
      BY <1>0, <2>1, <2>2, <2>5, <3>3
         DEF Evolves, Seen, HeldAt, Early, Settled, Leaving
    <3> QED  BY <2>3, <3>2, <3>3, <3>4, <3>5 DEF StepFacts, p, n
  <2> QED  BY <2>1, <2>4, <2>5
<1>6. CASE Block(r, a)
  <2>1. /\ UNCHANGED <<pidFile, csv, queue, wire, out>> /\ p.at = "about"
        /\ GoTo(r, a, "wait") /\ "wait" \in StageNames
    BY <1>6 DEF Block, At, StageNames
  <2>2. p.at \in Seen(r) /\ r # "server" /\ p.at \in HeldAt(r)
    BY <1>0, <2>1 DEF Seen, Tunnel, HeldAt
  <2>3. Claims(r, a) /\ Edge(r, p.at, "wait")
    BY <2>1, <2>2 DEF Claims, Edge
  <2> QED  BY <2>1, <2>2, <2>3, MoveIs
<1>7. CASE r = "server" /\ ServerStops(a)
  <2>1. /\ UNCHANGED <<pidFile, csv, queue, wire, out>> /\ p.at = "wait"
        /\ GoTo(r, a, "statistics") /\ "statistics" \in StageNames
    BY <1>7 DEF ServerStops, At, StageNames
  <2>2. p.at \in Seen(r) /\ p.at \in HeldAt(r)
    BY <1>7, <2>1 DEF Seen, HeldAt
  <2>3. Claims(r, a) /\ Edge(r, p.at, "statistics")
    BY <2>1, <2>2 DEF Claims, Edge
  <2> QED  BY <1>7, <2>1, <2>2, <2>3, MoveIs
<1>8. CASE ReceiveFails(r, a)
  <2>1. /\ UNCHANGED <<pidFile, csv, queue, wire, out>> /\ p.at = "wait"
        /\ GoTo(r, a, "statistics") /\ "statistics" \in StageNames
        /\ MayFail("receive")
    BY <1>8 DEF ReceiveFails, At, StageNames
  <2>2. p.at \in Seen(r) /\ p.at \in HeldAt(r)
    BY <1>0, <2>1 DEF Seen, HeldAt
  <2>3. Claims(r, a) /\ Edge(r, p.at, "statistics")
    BY <2>1, <2>2 DEF Claims, Edge
  <2> QED  BY <2>1, <2>2, <2>3, MoveIs
<1>9. CASE Release(r, a)
  <2>1. /\ UNCHANGED <<pidFile, csv>> /\ p.at = "release"
        /\ queue' \in {0, queue} /\ wire' \in {0, wire} /\ out' \in {0, out}
        /\ GoTo(r, a, "gone") /\ "gone" \in StageNames
    BY <1>9 DEF Release, At, StageNames
  <2>2. p.at \in Seen(r) /\ p.at \in HeldAt(r)
    BY <1>0, <2>1 DEF Seen, HeldAt
  <2>3. Claims(r, a) /\ Edge(r, p.at, "gone")
    BY <2>1, <2>2 DEF Claims, Edge
  <2> QED  BY <2>1, <2>2, <2>3, MoveIs
<1>20. ASSUME Set(r, a, Handled(r, a)), p.at = "wait",
              UNCHANGED <<pidFile, csv>>,
              \/ /\ r = "gateway" /\ queue > 0 /\ queue' = queue - 1
                 /\ wire' \in {wire, wire + 1} /\ out' = out
              \/ /\ r = "receiver" /\ wire > 0 /\ wire' = wire - 1
                 /\ out' \in {out, out + 1} /\ queue' = queue
       PROVE  StepFacts(r, a)
  <2> DEFINE f == IF r = "gateway" /\ plan.backend = "rq"
                  THEN Fetch(p.figures) ELSE p.figures
  <2>1. f \in NoFigures .. MaxAttempts
        /\ (f = p.figures \/ f \in 0 .. MaxAttempts)
    <3>1. p.figures \in NoFigures .. MaxAttempts
          /\ metricsFile \in NoFile .. MaxAttempts
      BY <1>0 DEF ProgramState, Types
    <3>2. MaxAttempts \in Nat
      BY ExperimentAssumption DEF ExperimentAssumption
    <3> QED  BY <3>1, <3>2 DEF Fetch, NoFile, Empty, NoFigures
  <2> HIDE DEF f
  <2>2. r # "server" /\ r \in Tunnel
    BY <1>20 DEF Tunnel
  <2>3. Handled(r, a) = [p EXCEPT !.at = "test", !.count = @ + 1,
                                  !.figures = f]
    BY <2>2 DEF Handled, f
  <2>4. /\ Handled(r, a) \in ProgramState
        /\ Handled(r, a).at = "test" /\ Handled(r, a).stop = p.stop
        /\ Handled(r, a).count = p.count + 1
        /\ Handled(r, a).logged = p.logged
        /\ Handled(r, a).attached = p.attached
        /\ Handled(r, a).figures = f
    <3>1. Fed(p, Handled(r, a), "test", f)
      BY <1>0, <2>1, <2>3, FedIs DEF StageNames
    <3> QED  BY <3>1 DEF Fed
  <2>5. n = Handled(r, a) /\ OthersSame(r, a) /\ ProgType'
    BY <1>0, <1>20, <2>4, SetIs
  <2>6. Claims(r, a)
    BY <1>20, <2>2 DEF Claims, HeldAt
  <2>7. Passes(r, a) /\ WritesPid(r, a) /\ WritesSummary(r, a)
    BY <1>20, <2>4, <2>5 DEF Passes, WritesPid, WritesSummary
  <2>8. Unprompted(r, a)
    BY <1>0, <1>20, <2>4, <2>5 DEF Unprompted, Types
  <2> HIDE DEF p, n
  <2>9. Evolves(r, p, n)
    BY <1>0, <1>20, <2>1, <2>2, <2>4, <2>5
       DEF Evolves, Seen, HeldAt, Early, Settled, Leaving
  <2> QED  BY <2>4, <2>5, <2>6, <2>7, <2>8, <2>9 DEF StepFacts, p, n
<1>10. CASE r = "gateway" /\ \E lost \in BOOLEAN : Intercept(a, lost)
  <2>1. /\ UNCHANGED <<pidFile, csv, out>> /\ p.at = "wait" /\ queue > 0
        /\ queue' = queue - 1 /\ wire' \in {wire, wire + 1}
        /\ Set(r, a, Handled(r, a)) /\ wire \in Nat
    BY <1>10 DEF Intercept, Onward, At, Types
  <2> QED  BY <1>10, <2>1, <1>20
<1>11. CASE r = "receiver" /\ \E lost \in BOOLEAN : Forward(a, lost)
  <2>1. /\ UNCHANGED <<pidFile, csv, queue>> /\ p.at = "wait" /\ wire > 0
        /\ wire' = wire - 1 /\ out' \in {out, out + 1}
        /\ Set(r, a, Handled(r, a)) /\ out \in Nat
    BY <1>11 DEF Forward, Onward, At, Types
  <2> QED  BY <1>11, <2>1, <1>20
<1>12. CASE r = "server" /\ Measured(a)
  <2> DEFINE h == Handled("server", a)
             l == h.logged \/ (Fixed /\ h.count = Target /\ h.attached)
  <2>1. /\ UNCHANGED <<pidFile, csv, queue, wire>> /\ p.at = "wait"
        /\ out > 0 /\ out' = out - 1
        /\ Set("server", a, [h EXCEPT !.logged = l])
    BY <1>12 DEF Measured, At
  <2>2. Fed(p, h, "wait", p.figures)
    <3>1. h = [p EXCEPT !.at = "wait", !.count = @ + 1,
                        !.figures = p.figures]
      BY <1>0, <1>12 DEF Handled
    <3>2. p.figures \in NoFigures .. MaxAttempts /\ "wait" \in StageNames
      BY <1>0 DEF ProgramState, StageNames
    <3> HIDE DEF h, p
    <3> QED  BY <1>0, <3>1, <3>2, FedIs
  <2>3. /\ h \in ProgramState /\ h.at = "wait" /\ h.stop = p.stop
        /\ h.count = p.count + 1 /\ h.logged = p.logged
        /\ h.attached = p.attached /\ h.figures = p.figures
        /\ l \in BOOLEAN
    <3>1. h.logged \in BOOLEAN /\ h.attached \in BOOLEAN
      BY <2>2 DEF Fed, ProgramState
    <3> QED  BY <2>2, <3>1 DEF Fed
  <2>4. (l => p.logged \/ p.attached) /\ (p.logged => l)
    BY <2>3
  <2> HIDE DEF h, l
  <2> DEFINE g == [h EXCEPT !.logged = l]
  <2>5. /\ g \in ProgramState /\ g.at = "wait" /\ g.stop = p.stop
        /\ g.count = p.count + 1 /\ g.logged = l
        /\ g.attached = p.attached /\ g.figures = p.figures
    BY <2>3 DEF ProgramState
  <2>6. Set(r, a, g)
    BY <1>12, <2>1
  <2> HIDE DEF g
  <2>7. n = g /\ OthersSame(r, a) /\ ProgType'
    BY <1>0, <2>5, <2>6, SetIs
  <2>8. Claims(r, a)
    BY <1>12, <2>1 DEF Claims, HeldAt
  <2>9. Passes(r, a) /\ WritesPid(r, a) /\ WritesSummary(r, a)
        /\ Unprompted(r, a)
    BY <1>12, <2>1, <2>5, <2>7
       DEF Passes, WritesPid, WritesSummary, Unprompted
  <2> HIDE DEF p, n
  <2>10. Evolves(r, p, n)
    BY <1>0, <1>12, <2>1, <2>4, <2>5, <2>7
       DEF Evolves, Seen, HeldAt, Early, Settled, Leaving
  <2> QED  BY <2>5, <2>7, <2>8, <2>9, <2>10 DEF StepFacts, p, n
<1>13. CASE Statistics(r, a)
  <2> DEFINE s == IF r = "server" THEN "release" ELSE "summary"
             l == p.logged \/ (p.attached
                                 /\ (r = "server" => p.count > 0))
             g == [p EXCEPT !.at = s, !.logged = l]
  <2>1. /\ UNCHANGED <<pidFile, csv, queue, wire, out>>
        /\ p.at = "statistics" /\ Set(r, a, g)
    <3>1. After(r, "statistics") = s
      BY <1>0, AfterIs DEF Tunnel
    <3>2. Set(r, a, [p EXCEPT !.at = After(r, "statistics"), !.logged = l])
      BY <1>13 DEF Statistics
    <3> QED  BY <1>13, <3>1, <3>2 DEF Statistics, At
  <2>2. /\ s \in StageNames /\ p.logged \in BOOLEAN /\ p.attached \in BOOLEAN
        /\ s \in Seen(r) /\ s \in Leaving /\ s \in Settled /\ s \notin Early
        /\ r # "server" => s = "summary"
        /\ s # "shell" /\ s # "wait" /\ s # "none" /\ s # "statistics"
    BY <1>0 DEF StageNames, ProgramState, Seen, Leaving, Settled, Early
  <2>3. l \in BOOLEAN /\ (l => p.logged \/ p.attached) /\ (p.logged => l)
    BY <2>2
  <2>4. p.at \in HeldAt(r) /\ p.at # "wait"
    BY <2>1 DEF HeldAt
  <2> HIDE DEF l, s
  <2>5. /\ g \in ProgramState /\ g.at = s /\ g.stop = p.stop
        /\ g.count = p.count /\ g.logged = l
        /\ g.attached = p.attached /\ g.figures = p.figures
    BY <1>0, <2>2, <2>3 DEF ProgramState
  <2> HIDE DEF g
  <2>6. n = g /\ OthersSame(r, a) /\ ProgType'
    BY <1>0, <2>1, <2>5, SetIs
  <2>7. Claims(r, a)
    BY <2>4 DEF Claims
  <2>8. Passes(r, a) /\ WritesPid(r, a) /\ WritesSummary(r, a)
        /\ Unprompted(r, a)
    BY <2>1, <2>5, <2>6
       DEF Passes, WritesPid, WritesSummary, Unprompted
  <2> HIDE DEF p, n
  <2>9. Evolves(r, p, n)
    BY <1>0, <2>1, <2>2, <2>3, <2>4, <2>5, <2>6 DEF Evolves, Leaving
  <2> QED  BY <2>5, <2>6, <2>7, <2>8, <2>9 DEF StepFacts, p, n
<1>14. CASE \E ok \in BOOLEAN : WriteSummary(r, a, ok)
  <2>1. /\ UNCHANGED <<pidFile, queue, wire, out>> /\ p.at = "summary"
        /\ GoTo(r, a, "release") /\ "release" \in StageNames
    BY <1>14 DEF WriteSummary, At, StageNames
  <2>2. /\ r \in Tunnel /\ p.at \in HeldAt(r) /\ p.at \in Seen(r)
        /\ r # "server"
    BY <1>0, <2>1 DEF Seen, Tunnel, HeldAt
  <2>3. Moved(p, n, "release") /\ OthersSame(r, a) /\ ProgType'
    BY <1>0, <2>1, GoToIs
  <2>4. /\ n \in ProgramState /\ n.at = "release" /\ n.stop = p.stop
        /\ n.count = p.count /\ n.logged = p.logged
        /\ n.attached = p.attached /\ n.figures = p.figures
    BY <2>3 DEF Moved
  <2>5. csv = [csv EXCEPT ![r] = csv[r]]
    BY <2>2 DEF Types
  <2>6. WritesSummary(r, a)
    <3>1. CASE plan.mode = "full"
      <4>1. PICK ok \in BOOLEAN, left \in {csv[r], NoSummary} :
              /\ ok \/ MayFail("summary")
              /\ csv' = [csv EXCEPT ![r] =
                          IF ok THEN [by |-> a, count |-> prog[r][a].count]
                                ELSE left]
        BY <1>14, <3>1 DEF WriteSummary
      <4>2. CASE ok
        BY <2>1, <2>2, <2>4, <4>1, <4>2 DEF WritesSummary
      <4>3. CASE ~ok
        BY <2>1, <2>2, <2>4, <2>5, <4>1, <4>3 DEF WritesSummary
      <4> QED  BY <4>2, <4>3
    <3>2. CASE plan.mode # "full"
      BY <1>14, <3>2 DEF WriteSummary, WritesSummary
    <3> QED  BY <3>1, <3>2
  <2>7. Passes(r, a) /\ WritesPid(r, a) /\ Unprompted(r, a) /\ Claims(r, a)
    BY <2>1, <2>2, <2>4 DEF Passes, WritesPid, Unprompted, Claims
  <2> HIDE DEF p, n
  <2>8. Evolves(r, p, n)
    BY <1>0, <2>1, <2>2, <2>4, EdgeEvolves DEF Edge
  <2> QED  BY <2>3, <2>4, <2>6, <2>7, <2>8 DEF StepFacts, p, n
<1>15. \/ ShellStep(r, a) \/ StartUpStep(r, a) \/ TestStop(r, a)
       \/ Block(r, a) \/ StartUpFails(r, a) \/ Statistics(r, a)
       \/ Release(r, a)
       \/ r = "gateway" /\ \E lost \in BOOLEAN : Intercept(a, lost)
       \/ r = "receiver" /\ \E lost \in BOOLEAN : Forward(a, lost)
       \/ r = "server" /\ (Measured(a) \/ ServerStops(a))
       \/ \E ok \in BOOLEAN : WriteSummary(r, a, ok)
       \/ ReceiveFails(r, a)
  BY DEF OwnSteps
<1> QED  BY <1>2, <1>3, <1>4, <1>5, <1>6, <1>7, <1>8, <1>9, <1>10, <1>11,
            <1>12, <1>13, <1>14, <1>15

-----------------------------------------------------------------------------
(* What a step of the runner does *)

Started(r, a) ==
  /\ TryAt(StartPlace(r)) /\ a = attempt
  /\ prog'[r][a] = [NoProgram EXCEPT !.at = Stages(r)[1], !.attached = TRUE]

\* Where an exception can be raised: before the traffic, when it is over,
\* and when the attempt is judged.
Raises ==
  \/ runner.in = "try" /\ runner.at < TrafficPlace
  \/ TryAt(TrafficPlace) /\ generator \in {"done", "failed"}
  \/ TryAt(18 + 3 * M)
Control ==
  \/ Onwards /\ ~TryAt(TrafficPlace) /\ generator' = generator
  \/ /\ Onwards /\ TryAt(TrafficPlace)
     /\ generator = "done" /\ generator' = "timed"
  \/ /\ runner' = runner /\ TryAt(TrafficPlace)
     /\ generator = "off" /\ generator' = "on"
  \/ /\ runner' = [in |-> "finally", at |-> 1] /\ status' = "failed"
     /\ generator' = generator
     /\ Raises
Verdict ==
  \/ status' = status /\ ~TryAt(18 + 3 * M)
  \/ status' = "failed" /\ runner' = [in |-> "finally", at |-> 1]
  \/ status' = "valid" /\ TryAt(18 + 3 * M) /\ Reported /\ Accepted

\* The programs: all but the one that is started, if any, evolve.
Fates ==
  /\ ProgType'
  /\ \A r \in Roles, a \in Attempts :
       \/ /\ Evolves(r, prog[r][a], prog'[r][a])
          /\ prog'[r][a].at \in HeldAt(r) => prog[r][a].at \in HeldAt(r)
          /\ prog'[r][a].count = prog[r][a].count
          /\ prog'[r][a].logged = prog[r][a].logged
          /\ prog[r][a].at = "summary" => prog'[r][a].at = "summary"
       \/ Started(r, a)
LeftAlone ==
  runner.in = "try" /\ runner.at > 1 /\ runner.at < 12 + M =>
    \A r \in Roles, a \in Attempts :
      prog'[r][a] = prog[r][a] \/ Started(r, a)
Signals ==
  /\ TryAt(1) =>
       \A r \in Roles, a \in Attempts : Termed(r, prog[r][a], prog'[r][a])
  /\ \A r \in Tunnel :
       (TryAt(SignalPlace(r)) \/ FinallyAt(FinalSignal(r)))
       /\ pidFile[r] = attempt /\ attempt \in Attempts
       => Termed(r, prog[r][attempt], prog'[r][attempt])
  /\ FinallyAt(FinalSignal("server")) /\ attempt \in Attempts =>
       Termed("server", prog["server"][attempt], prog'["server"][attempt])
Rests ==
  /\ TryAt(2) => \A r \in Roles, a \in Attempts : AtRest(r, a)
  /\ \A r \in Tunnel : TryAt(AwaitPlace(r)) /\ runner'.in = "try" =>
       pidFile[r] # 0 /\ AtRest(r, attempt)
Gathered(r) ==
  /\ prog'[r][attempt].at = prog[r][attempt].at
  /\ prog'[r][attempt].stop = prog[r][attempt].stop
  /\ \/ ~Alive(r, attempt)
     \/ AtRest(r, attempt) /\ ~prog'[r][attempt].attached
Collects ==
  \A r \in Roles :
    ((r \in Tunnel /\ TryAt(CollectPlace(r))) \/ FinallyAt(FinalCollect(r)))
    /\ attempt \in Attempts => Gathered(r)
Files ==
  /\ TryAt(3) /\ runner'.in = "try" =>
       /\ pidFile' = [r \in DOMAIN pidFile |-> 0]
       /\ csv' = [r \in DOMAIN csv |-> NoSummary]
  /\ ~(TryAt(3) /\ runner'.in = "try") => pidFile' = pidFile /\ csv' = csv
Others ==
  /\ sent' = sent /\ queue' \in {0, queue} /\ metricsFile' = metricsFile
  /\ monitorAt' \in [Monitors -> {"none", "shell", "measure", "publish",
                                  "gone"}]
  /\ UNCHANGED <<plan, attempt, inWindow, wire, out, kills>>

RunnerFacts == /\ Control /\ Verdict /\ Fates /\ LeftAlone
               /\ Signals /\ Rests /\ Collects /\ Files /\ Others

\* A program that does not move evolves.
LEMMA StillEvolves ==
  ASSUME NEW r \in Roles, NEW p \in ProgramState,
         p.at \in Seen(r) \cup {"none", "gone"}
  PROVE  Evolves(r, p, p)
<1>1. CASE p.at \in {"none", "gone"}
  BY <1>1 DEF Evolves, HeldAt, Leaving, Early, ProgramState
<1>2. CASE p.at \notin {"none", "gone"}
  BY <1>2, EdgeEvolves DEF Edge
<1> QED  BY <1>1, <1>2

\* For the steps that leave the programs alone.
LEMMA StillFates ==
  ASSUME Types, Sound, prog' = prog, plan' = plan
  PROVE  Fates /\ LeftAlone
<1>1. ASSUME NEW r \in Roles, NEW a \in Attempts
      PROVE  Evolves(r, prog[r][a], prog'[r][a])
  <2>1. prog[r][a] \in ProgramState
        /\ prog[r][a].at \in Seen(r) \cup {"none", "gone"}
    BY DEF Types, Sound, Programs1, At
  <2> QED  BY <2>1, StillEvolves
<1>2. ProgType'
  BY DEF Types, ProgType
<1> QED  BY <1>1, <1>2 DEF Fates, LeftAlone

\* For those that send signals to some.
LEMMA SignalFates ==
  ASSUME Types, Sound, plan' = plan, NEW T,
         prog' = [r \in Roles |-> [a \in Attempts |->
                    IF <<r, a>> \in T THEN Signalled(r, prog[r][a])
                                   ELSE prog[r][a]]]
  PROVE  /\ Fates
         /\ \A r \in Roles, a \in Attempts :
              /\ <<r, a>> \in T => Termed(r, prog[r][a], prog'[r][a])
              /\ ~<<r, a>> \in T => prog'[r][a] = prog[r][a]
<1>1. ASSUME NEW r \in Roles, NEW a \in Attempts
      PROVE  /\ <<r, a>> \in T => Termed(r, prog[r][a], prog'[r][a])
             /\ ~<<r, a>> \in T => prog'[r][a] = prog[r][a]
             /\ prog'[r][a] \in ProgramState
             /\ Evolves(r, prog[r][a], prog'[r][a])
             /\ prog'[r][a].at \in HeldAt(r) => prog[r][a].at \in HeldAt(r)
             /\ prog'[r][a].count = prog[r][a].count
             /\ prog'[r][a].logged = prog[r][a].logged
             /\ prog[r][a].at = "summary" => prog'[r][a].at = "summary"
  <2>1. prog[r][a] \in ProgramState
        /\ prog[r][a].at \in Seen(r) \cup {"none", "gone"}
    BY DEF Types, Sound, Programs1, At
  <2>2. prog'[r][a] = IF <<r, a>> \in T THEN Signalled(r, prog[r][a])
                                    ELSE prog[r][a]
    OBVIOUS
  <2>3. CASE ~<<r, a>> \in T
    BY <2>1, <2>2, <2>3, StillEvolves
  <2>4. CASE <<r, a>> \in T
    <3>1. Termed(r, prog[r][a], prog'[r][a])
      BY <2>1, <2>2, <2>4, SignalledIs
    <3>2. prog'[r][a].at \in HeldAt(r) => prog[r][a].at \in HeldAt(r)
      <4>1. SUFFICES ASSUME prog'[r][a].at \in HeldAt(r)
                     PROVE  prog[r][a].at \in HeldAt(r)
        OBVIOUS
      <4>2. /\ prog[r][a].at \in HeldAt(r) \cup {ClaimOf(r)}
            /\ prog'[r][a].at \in Early => prog[r][a].at \in Early
        BY <3>1, <4>1 DEF Termed, Evolves
      <4> DEFINE p == prog[r][a]  n == prog'[r][a]
      <4>3. n = Signalled(r, p)
        BY <2>2, <2>4
      <4> HIDE DEF n
      <4>4. CASE p.at = ClaimOf(r)
        <5>1. p \in ProgramState
          BY <2>1
        <5> HIDE DEF p
        <5>2. n.at = "gone" \/ (r = "server" /\ n.at = "bind")
          BY <4>3, <4>4, <5>1 DEF Signalled, ClaimOf, Roles, ProgramState
        <5>3. n.at \notin HeldAt(r)
          BY <5>2 DEF HeldAt
        <5> QED  BY <4>1, <5>3 DEF n, p
      <4> QED  BY <4>2, <4>4
    <3>3. prog[r][a].at = "summary" => prog'[r][a].at = "summary"
      <4> DEFINE p == prog[r][a]  n == prog'[r][a]
      <4>1. n = Signalled(r, p) /\ p \in ProgramState
        BY <2>1, <2>2, <2>4
      <4> HIDE DEF p, n
      <4>2. p.at = "summary" => n = [p EXCEPT !.stop = TRUE]
        BY <4>1 DEF Signalled
      <4>3. p.at = "summary" => n.at = p.at
        BY <4>1, <4>2 DEF ProgramState
      <4> QED  BY <4>3 DEF p, n
    <3> QED  BY <2>4, <3>1, <3>2, <3>3 DEF Termed
  <2> QED  BY <2>3, <2>4
<1>2. ProgType'
  BY <1>1 DEF ProgType
<1> QED  BY <1>1, <1>2 DEF Fates

\* The runner that finishes the operation it is doing goes on.
LEMMA AdvanceFrom ==
  ASSUME Somewhere, NEW o, NEW r, Doing(o, r), Advance
  PROVE  Onwards
<1>1. runner # Idle
  BY DoingIs DEF Idle
<1> QED  BY <1>1, AdvanceIs

\* Where each operation stands.
LEMMA PlacesOf ==
  ASSUME Somewhere
  PROVE  /\ Doing("clean", "") => TryAt(1)
         /\ Doing("rest", "") => TryAt(2) \/ TryAt(7 + M) \/ TryAt(11 + M)
         /\ Doing("remove", "") => TryAt(3)
         /\ \A r \in Roles : Doing("start", r) => TryAt(StartPlace(r))
         /\ Doing("start", "monitor") => M = 1 /\ TryAt(6)
         /\ \A r \in Tunnel : Doing("await", r) => TryAt(AwaitPlace(r))
         /\ Doing("traffic", "") => TryAt(TrafficPlace)
         /\ \A r \in Tunnel : Doing("signal", r) =>
              TryAt(SignalPlace(r)) \/ FinallyAt(FinalSignal(r))
         /\ Doing("signal", "monitor") =>
              M = 1 /\ (TryAt(15) \/ FinallyAt(3))
         /\ Doing("pkill", "server") =>
              TryAt(16 + 3 * M) \/ FinallyAt(FinalSignal("server"))
         /\ \A r \in Tunnel : Doing("collect", r) =>
              TryAt(CollectPlace(r)) \/ FinallyAt(FinalCollect(r))
         /\ Doing("collect", "server") =>
              TryAt(17 + 3 * M) \/ FinallyAt(FinalCollect("server"))
         /\ Doing("collect", "monitor") =>
              M = 1 /\ (TryAt(18) \/ FinallyAt(7))
         /\ Doing("judge", "") => TryAt(18 + 3 * M)
<1>1. \A o, r : Doing(o, r) =>
        \/ runner.in = "try" /\ TryOp(runner.at, o, r)
        \/ runner.in = "finally" /\ FinallyOp(runner.at, o, r)
  BY DoingIs
<1>2. /\ Doing("clean", "") => TryAt(1)
      /\ Doing("rest", "") => TryAt(2) \/ TryAt(7 + M) \/ TryAt(11 + M)
      /\ Doing("remove", "") => TryAt(3)
      /\ Doing("start", "monitor") => M = 1 /\ TryAt(6)
  <2>1. \A i : /\ TryOp(i, "clean", "") => i = 1
               /\ TryOp(i, "rest", "") => i \in {2, 7 + M, 11 + M}
               /\ TryOp(i, "remove", "") => i = 3
               /\ TryOp(i, "start", "monitor") => M = 1 /\ i = 6
    BY DEF TryOp
  <2>2. \A i : /\ ~FinallyOp(i, "clean", "") /\ ~FinallyOp(i, "rest", "")
               /\ ~FinallyOp(i, "remove", "")
               /\ ~FinallyOp(i, "start", "monitor")
    BY DEF FinallyOp
  <2> QED  BY <1>1, <2>1, <2>2 DEF TryAt
<1>3. /\ Doing("traffic", "") => TryAt(TrafficPlace)
      /\ Doing("signal", "monitor") => M = 1 /\ (TryAt(15) \/ FinallyAt(3))
      /\ Doing("pkill", "server") =>
           TryAt(16 + 3 * M) \/ FinallyAt(FinalSignal("server"))
      /\ Doing("collect", "server") =>
           TryAt(17 + 3 * M) \/ FinallyAt(FinalCollect("server"))
  <2>1. \A i : /\ TryOp(i, "traffic", "") => i = TrafficPlace
               /\ TryOp(i, "signal", "monitor") => M = 1 /\ i = 15
               /\ TryOp(i, "pkill", "server") => i = 16 + 3 * M
               /\ TryOp(i, "collect", "server") => i = 17 + 3 * M
    BY DEF TryOp, TrafficPlace
  <2>2. \A i : /\ ~FinallyOp(i, "traffic", "")
               /\ FinallyOp(i, "signal", "monitor") => M = 1 /\ i = 3
               /\ FinallyOp(i, "pkill", "server") => i = FinalSignal("server")
               /\ FinallyOp(i, "collect", "server") =>
                    i = FinalCollect("server")
    BY DEF FinallyOp, FinalSignal, FinalCollect
  <2> QED  BY <1>1, <2>1, <2>2 DEF TryAt, FinallyAt
<1>4. /\ Doing("collect", "monitor") => M = 1 /\ (TryAt(18) \/ FinallyAt(7))
      /\ Doing("judge", "") => TryAt(18 + 3 * M)
  <2>1. \A i : /\ TryOp(i, "collect", "monitor") => M = 1 /\ i = 18
               /\ TryOp(i, "judge", "") => i = 18 + 3 * M
               /\ FinallyOp(i, "collect", "monitor") => M = 1 /\ i = 7
               /\ ~FinallyOp(i, "judge", "")
    BY DEF TryOp, FinallyOp
  <2> QED  BY <1>1, <2>1 DEF TryAt, FinallyAt
<1>5. ASSUME NEW r \in Roles, Doing("start", r)
      PROVE  TryAt(StartPlace(r))
  <2>1. \A i : /\ TryOp(i, "start", r) => i = StartPlace(r)
               /\ ~FinallyOp(i, "start", r)
    BY DEF TryOp, FinallyOp, StartPlace, Roles
  <2> QED  BY <1>1, <1>5, <2>1 DEF TryAt
<1>6. ASSUME NEW r \in Tunnel
      PROVE  /\ Doing("await", r) => TryAt(AwaitPlace(r))
             /\ Doing("signal", r) =>
                  TryAt(SignalPlace(r)) \/ FinallyAt(FinalSignal(r))
             /\ Doing("collect", r) =>
                  TryAt(CollectPlace(r)) \/ FinallyAt(FinalCollect(r))
  <2>1. \A i : /\ TryOp(i, "await", r) => i = AwaitPlace(r)
               /\ TryOp(i, "signal", r) => i = SignalPlace(r)
               /\ TryOp(i, "collect", r) => i = CollectPlace(r)
    BY DEF TryOp, AwaitPlace, SignalPlace, CollectPlace, Tunnel
  <2>2. \A i : /\ ~FinallyOp(i, "await", r)
               /\ FinallyOp(i, "signal", r) => i = FinalSignal(r)
               /\ FinallyOp(i, "collect", r) => i = FinalCollect(r)
    BY DEF FinallyOp, FinalSignal, FinalCollect, Tunnel
  <2> QED  BY <1>1, <2>1, <2>2 DEF TryAt, FinallyAt
<1> QED  BY <1>2, <1>3, <1>4, <1>5, <1>6

\* Where the runner can find something else missing.
LEMMA RaisingPlaces ==
  ASSUME Somewhere, runner.in = "try",
         Script[runner.at].op \in {"remove", "start", "judge"}
  PROVE  \/ TryAt(3) \/ (\E r \in Roles : TryAt(StartPlace(r)))
         \/ (M = 1 /\ TryAt(6)) \/ TryAt(18 + 3 * M)
<1>1. runner.at \in 1 .. 18 + 3 * M
  BY DEF Somewhere, Idle
<1>2. PICK o \in OpNames, r \in OpRoles :
        Script[runner.at] = Op(o, r) /\ TryOp(runner.at, o, r)
  BY <1>1, TryOpIs
<1>3. o \in {"remove", "start", "judge"}
  BY <1>2 DEF Op
<1>4. /\ StartPlace("server") = 4 /\ StartPlace("receiver") = 5
      /\ StartPlace("gateway") = 6 + M
      /\ "server" \in Roles /\ "receiver" \in Roles /\ "gateway" \in Roles
  BY DEF StartPlace, Roles
<1>5. runner.at \in {3, 4, 5, 6 + M, 18 + 3 * M} \/ (M = 1 /\ runner.at = 6)
  BY <1>2, <1>3 DEF TryOp
<1> QED  BY <1>4, <1>5 DEF TryAt

\* What the places are, without their names.
Numbers ==
  /\ M \in {0, 1} /\ TrafficPlace = 10 + M
  /\ StartPlace("server") = 4 /\ StartPlace("receiver") = 5
  /\ StartPlace("gateway") = 6 + M
  /\ AwaitPlace("gateway") = 8 + M /\ AwaitPlace("receiver") = 9 + M
  /\ SignalPlace("gateway") = 12 + M /\ SignalPlace("receiver") = 13 + M
  /\ CollectPlace("gateway") = 14 + 2 * M
  /\ CollectPlace("receiver") = 15 + 2 * M
  /\ FinalSignal("gateway") = 1 /\ FinalSignal("receiver") = 2
  /\ FinalSignal("server") = 3 + M
  /\ FinalCollect("gateway") = 6 + 2 * M
  /\ FinalCollect("receiver") = 5 + M /\ FinalCollect("server") = 4 + M

\* The places of the script as numbers, in the order main has them.
LEMMA NumbersAre == Numbers
<1>1. M \in {0, 1}
  BY MIs
<1> QED  BY <1>1 DEF Numbers, StartPlace, AwaitPlace, SignalPlace,
            CollectPlace, FinalSignal, FinalCollect, TrafficPlace

\* The facts that are void where the runner stands.
LEMMA Void ==
  /\ TryAt(2) \/ TryAt(7 + M) \/ TryAt(11 + M)
       => Signals /\ Collects
  /\ TryAt(1) \/ TryAt(3) \/ TryAt(10 + M) \/ TryAt(18 + 3 * M)
       => Rests /\ Collects
  /\ TryAt(3) \/ TryAt(10 + M) \/ TryAt(18 + 3 * M) => Signals
  /\ (\E r \in Roles : TryAt(StartPlace(r))) => Rests /\ Signals /\ Collects
  /\ M = 1 /\ TryAt(6) => Rests /\ Signals /\ Collects
  /\ (\E r \in Tunnel : TryAt(AwaitPlace(r)))
       => Signals /\ Collects
  /\ (\E r \in Tunnel : TryAt(SignalPlace(r)) \/ FinallyAt(FinalSignal(r)))
     \/ TryAt(16 + 3 * M) \/ FinallyAt(FinalSignal("server"))
     => Rests /\ Collects
  /\ (\E r \in Tunnel : TryAt(CollectPlace(r)) \/ FinallyAt(FinalCollect(r)))
     \/ TryAt(17 + 3 * M) \/ FinallyAt(FinalCollect("server"))
     => Rests /\ Signals
  /\ M = 1 /\ (TryAt(15) \/ FinallyAt(3) \/ TryAt(18) \/ FinallyAt(7))
     => Rests /\ Signals /\ Collects
<1>1. Numbers
  BY NumbersAre
<1>2. Roles = {"gateway", "receiver", "server"}
      /\ Tunnel = {"gateway", "receiver"}
  BY DEF Roles, Tunnel
<1>3. \A n : /\ TryAt(n) => runner.in = "try" /\ runner.at = n
             /\ FinallyAt(n) => runner.in = "finally" /\ runner.at = n
  BY DEF TryAt, FinallyAt
<1>4. ASSUME runner.in = "try",
             runner.at \notin {1, 12 + M, 13 + M}
      PROVE  Signals
  BY <1>1, <1>2, <1>3, <1>4 DEF Signals, Numbers
<1>5. ASSUME runner.in = "finally", runner.at \notin {1, 2, 3 + M}
      PROVE  Signals
  BY <1>1, <1>2, <1>3, <1>5 DEF Signals, Numbers
<1>6. ASSUME runner.in = "try", runner.at \notin {14 + 2 * M, 15 + 2 * M}
      PROVE  Collects
  BY <1>1, <1>2, <1>3, <1>6 DEF Collects, Numbers
<1>7. ASSUME runner.in = "finally",
             runner.at \notin {4 + M, 5 + M, 6 + 2 * M}
      PROVE  Collects
  BY <1>1, <1>2, <1>3, <1>7 DEF Collects, Numbers
<1>8. ASSUME runner.in = "finally" \/ runner.at \notin {2, 8 + M, 9 + M}
      PROVE  Rests
  BY <1>1, <1>2, <1>3, <1>8 DEF Rests, Numbers
<1> HIDE DEF Signals, Collects, Rests
<1> QED  BY <1>1, <1>2, <1>3, <1>4, <1>5, <1>6, <1>7, <1>8 DEF Numbers

\* Killing monitors leaves them typed.
LEMMA MonitorsTyped ==
  ASSUME Types, NEW Ms, KillMonitors(Ms)
  PROVE  monitorAt' \in [Monitors -> {"none", "shell", "measure", "publish",
                                      "gone"}]
  BY DEF KillMonitors, Types

\* The message queue is kept, or emptied when its gateway goes.
LEMMA QueueAfterIs ==
  ASSUME NEW p
  PROVE  QueueAfter(p) \in {0, queue}
  BY DEF QueueAfter

\* An operation that only goes on and leaves the programs alone.
LEMMA GoesOn ==
  ASSUME Types, Sound, Onwards, plan' = plan, generator' = generator,
         status' = status, ~TryAt(18 + 3 * M), ~TryAt(TrafficPlace)
  PROVE  Control /\ Verdict
  BY DEF Control, Verdict

\* Every step of the runner is described by RunnerFacts.
LEMMA RunnerStepIs ==
  ASSUME Types, Sound, Course, RunnerStep
  PROVE  RunnerFacts
<1>0. /\ Numbers /\ Somewhere /\ ProgType /\ plan \in Plans
      /\ UNCHANGED <<plan, attempt, inWindow, wire, out, kills>>
      /\ monitorAt \in [Monitors -> {"none", "shell", "measure", "publish",
                                     "gone"}]
      /\ \A r \in Roles, a \in Attempts :
           prog[r][a] \in ProgramState
           /\ prog[r][a].at \in Seen(r) \cup {"none", "gone"}
  BY NumbersAre DEF RunnerStep, Types, ProgType, Sound, Programs1, At
<1>1. \A n, m : /\ TryAt(n) /\ TryAt(m) => n = m
                /\ TryAt(n) => ~FinallyAt(m)
                /\ FinallyAt(n) /\ FinallyAt(m) => n = m
  BY DEF TryAt, FinallyAt
<1>16. ASSUME NEW n, TryAt(n) \/ FinallyAt(n)
       PROVE  attempt \in Attempts
  <2>1. runner # Idle
    BY <1>16 DEF TryAt, FinallyAt, Idle
  <2>2. attempt # 0 /\ attempt \in 0 .. plan.attempts
    BY <2>1 DEF Course, Types
  <2>3. plan.attempts \in 1 .. MaxAttempts /\ MaxAttempts \in Nat
    BY <1>0, ExperimentAssumption DEF ExperimentAssumption
  <2> QED  BY <2>2, <2>3 DEF Attempts
<1>2. CASE Clean
  <2>1. /\ TryAt(1) /\ Onwards /\ queue' \in {0, queue}
        /\ prog' = [r \in Roles |-> [a \in Attempts |->
                      Signalled(r, prog[r][a])]]
        /\ monitorAt' \in [Monitors -> {"none", "shell", "measure",
                                        "publish", "gone"}]
        /\ UNCHANGED <<status, pidFile, csv, generator, sent, metricsFile>>
    BY <1>0, <1>2, PlacesOf, AdvanceFrom, QueueAfterIs, MonitorsTyped
       DEF Clean
  <2>2. ~TryAt(3) /\ ~TryAt(TrafficPlace) /\ ~TryAt(18 + 3 * M)
    BY <1>0, <2>1 DEF Numbers, TryAt
  <2>3. Control /\ Verdict /\ Files /\ Others
    BY <1>0, <2>1, <2>2, GoesOn DEF Files, Others
  <2>4. /\ Fates
        /\ \A r \in Roles, a \in Attempts :
             Termed(r, prog[r][a], prog'[r][a])
    <3> DEFINE T == Roles \X Attempts
    <3>1. \A r \in Roles, a \in Attempts : <<r, a>> \in T
      OBVIOUS
    <3> HIDE DEF T
    <3>2. prog' = [r \in Roles |-> [a \in Attempts |->
                     IF <<r, a>> \in T THEN Signalled(r, prog[r][a])
                                      ELSE prog[r][a]]]
      BY <2>1, <3>1
    <3> QED  BY <1>0, <3>1, <3>2, SignalFates
  <2>5. Signals
    <3>1. \A r \in Tunnel : ~TryAt(SignalPlace(r)) /\ ~FinallyAt(FinalSignal(r))
      BY <1>0, <2>1 DEF Numbers, Tunnel, TryAt, FinallyAt
    <3>2. ~FinallyAt(FinalSignal("server"))
      BY <1>1, <2>1
    <3> QED  BY <2>1, <2>4, <3>1, <3>2 DEF Signals
  <2>6. LeftAlone
    BY <2>1 DEF LeftAlone, TryAt
  <2> QED  BY <2>1, <2>3, <2>4, <2>5, <2>6, Void DEF RunnerFacts
<1>3. CASE Rest
  <2>1. /\ TryAt(2) \/ TryAt(7 + M) \/ TryAt(11 + M)
        /\ Onwards
        /\ \A r \in Roles, a \in Attempts : AtRest(r, a)
        /\ UNCHANGED <<status, prog, pidFile, csv, generator, sent, queue,
                       pmVars>>
    BY <1>0, <1>3, PlacesOf, AdvanceFrom DEF Rest
  <2>2. ~TryAt(3) /\ ~TryAt(TrafficPlace) /\ ~TryAt(18 + 3 * M)
    BY <1>0, <1>1, <2>1 DEF Numbers
  <2>3. Control /\ Verdict /\ Files /\ Others
    BY <1>0, <2>1, <2>2, GoesOn DEF Files, Others, pmVars
  <2>4. Fates /\ LeftAlone
    BY <1>0, <2>1, StillFates
  <2>5. Rests
    <3>1. \A r \in Tunnel : ~TryAt(AwaitPlace(r))
      BY <1>0, <2>1 DEF Numbers, Tunnel, TryAt, FinallyAt
    <3> QED  BY <2>1, <3>1 DEF Rests
  <2> QED  BY <2>1, <2>3, <2>4, <2>5, Void DEF RunnerFacts
<1>4. CASE RemoveFiles
  <2>1. /\ TryAt(3) /\ Onwards
        /\ pidFile' = [r \in DOMAIN pidFile |-> 0]
        /\ csv' = [r \in DOMAIN csv |-> NoSummary]
        /\ UNCHANGED <<status, prog, generator, sent, queue, pmVars>>
    BY <1>0, <1>4, PlacesOf, AdvanceFrom DEF RemoveFiles
  <2>2. ~TryAt(TrafficPlace) /\ ~TryAt(18 + 3 * M) /\ runner'.in = "try"
    BY <1>0, <1>1, <2>1 DEF Numbers, Onwards, TryAt
  <2>3. Control /\ Verdict /\ Files /\ Others
    BY <1>0, <2>1, <2>2, GoesOn DEF Files, Others, pmVars
  <2>4. Fates /\ LeftAlone
    BY <1>0, <2>1, StillFates
  <2> QED  BY <2>1, <2>3, <2>4, Void DEF RunnerFacts
<1>5. CASE StartMonitor
  <2>1. /\ TryAt(6) /\ M = 1 /\ Onwards
        /\ UNCHANGED <<status, prog, pidFile, csv, generator, sent, queue,
                       metricsFile>>
        /\ monitorAt' = [monitorAt EXCEPT ![attempt] = "shell"]
    BY <1>0, <1>5, PlacesOf, AdvanceFrom DEF StartMonitor
  <2>2. ~TryAt(3) /\ ~TryAt(TrafficPlace) /\ ~TryAt(18 + 3 * M)
    BY <1>0, <1>1, <2>1 DEF Numbers
  <2>3. monitorAt' \in [Monitors -> {"none", "shell", "measure", "publish",
                                     "gone"}]
    BY <1>0, <2>1
  <2>4. Control /\ Verdict /\ Files /\ Others
    BY <1>0, <2>1, <2>2, <2>3, GoesOn DEF Files, Others
  <2>5. Fates /\ LeftAlone
    BY <1>0, <2>1, StillFates
  <2> QED  BY <2>1, <2>4, <2>5, Void DEF RunnerFacts
<1>6. CASE Traffic
  <2>1. /\ TryAt(TrafficPlace)
        /\ UNCHANGED <<prog, pidFile, csv, sent, queue, pmVars>>
        /\ \/ /\ generator = "off" /\ generator' = "on"
              /\ UNCHANGED <<runner, status>>
           \/ /\ generator = "done" /\ generator' = "timed" /\ Onwards
              /\ UNCHANGED status
           \/ /\ generator \in {"done", "failed"} /\ Fail
              /\ UNCHANGED generator
    BY <1>0, <1>6, PlacesOf, AdvanceFrom DEF Traffic
  <2>2. ~TryAt(3) /\ ~TryAt(18 + 3 * M) /\ TrafficPlace = 10 + M
    BY <1>0, <1>1, <2>1 DEF Numbers
  <2>3. Control /\ Verdict
    BY <2>1, <2>2 DEF Control, Raises, Verdict, Fail
  <2>4. Files /\ Others
    BY <1>0, <2>1, <2>2 DEF Files, Others, pmVars
  <2>5. Fates /\ LeftAlone
    BY <1>0, <2>1, StillFates
  <2> QED  BY <2>1, <2>2, <2>3, <2>4, <2>5, Void DEF RunnerFacts
<1>7. CASE SignalMonitor
  <2>1. /\ M = 1 /\ (TryAt(15) \/ FinallyAt(3)) /\ Onwards
        /\ UNCHANGED <<status, prog, pidFile, csv, generator, sent, queue,
                       metricsFile>>
        /\ monitorAt' \in [Monitors -> {"none", "shell", "measure",
                                        "publish", "gone"}]
    BY <1>0, <1>7, PlacesOf, AdvanceFrom, MonitorsTyped DEF SignalMonitor
  <2>2. ~TryAt(3) /\ ~TryAt(TrafficPlace) /\ ~TryAt(18 + 3 * M)
    BY <1>0, <1>1, <2>1 DEF Numbers
  <2>3. Control /\ Verdict /\ Files /\ Others
    BY <1>0, <2>1, <2>2, GoesOn DEF Files, Others
  <2>4. Fates /\ LeftAlone
    BY <1>0, <2>1, StillFates
  <2> QED  BY <2>1, <2>3, <2>4, Void DEF RunnerFacts
<1>8. CASE CollectMonitor
  <2>1. /\ M = 1 /\ (TryAt(18) \/ FinallyAt(7)) /\ Onwards
        /\ UNCHANGED <<status, prog, pidFile, csv, generator, sent, queue,
                       pmVars>>
    BY <1>0, <1>8, PlacesOf, AdvanceFrom DEF CollectMonitor
  <2>2. ~TryAt(3) /\ ~TryAt(TrafficPlace) /\ ~TryAt(18 + 3 * M)
    BY <1>0, <1>1, <2>1 DEF Numbers
  <2>3. Control /\ Verdict /\ Files /\ Others
    BY <1>0, <2>1, <2>2, GoesOn DEF Files, Others, pmVars
  <2>4. Fates /\ LeftAlone
    BY <1>0, <2>1, StillFates
  <2> QED  BY <2>1, <2>3, <2>4, Void DEF RunnerFacts
<1>9. CASE Judge
  <2>1. /\ TryAt(18 + 3 * M)
        /\ UNCHANGED <<prog, pidFile, csv, generator, sent, queue, pmVars>>
        /\ \/ Reported /\ Accepted /\ status' = "valid" /\ Onwards
           \/ Fail
    BY <1>0, <1>9, PlacesOf, AdvanceFrom DEF Judge
  <2>2. ~TryAt(3) /\ ~TryAt(TrafficPlace)
    BY <1>0, <1>1, <2>1 DEF Numbers
  <2>3. Control /\ Verdict
    BY <2>1, <2>2 DEF Control, Raises, Verdict, Fail
  <2>4. Files /\ Others
    BY <1>0, <2>1, <2>2 DEF Files, Others, pmVars
  <2>5. Fates /\ LeftAlone
    BY <1>0, <2>1, StillFates
  <2> QED  BY <2>1, <2>3, <2>4, <2>5, Void DEF RunnerFacts
<1>10. ASSUME NEW r \in Tunnel, AwaitPid(r)
       PROVE  RunnerFacts
  <2>1. /\ TryAt(AwaitPlace(r))
        /\ UNCHANGED <<prog, pidFile, csv, generator, sent, queue, pmVars>>
        /\ \/ /\ pidFile[r] # 0 /\ AtRest(r, attempt) /\ Onwards
              /\ UNCHANGED status
           \/ Fail
    BY <1>0, <1>10, PlacesOf, AdvanceFrom DEF AwaitPid
  <2>2. ~TryAt(3) /\ ~TryAt(TrafficPlace) /\ ~TryAt(18 + 3 * M) /\ ~TryAt(2)
        /\ \A s \in Tunnel : TryAt(AwaitPlace(s)) => s = r
    BY <1>0, <2>1 DEF Numbers, Tunnel, TryAt
  <2>3. Control /\ Verdict
    <3>1. runner.in = "try" /\ runner.at < TrafficPlace
      BY <1>0, <2>1 DEF Numbers, Tunnel, TryAt
    <3> QED  BY <2>1, <2>2, <3>1 DEF Control, Raises, Verdict, Fail
  <2>4. Files /\ Others
    BY <1>0, <2>1, <2>2 DEF Files, Others, pmVars
  <2>5. Fates /\ LeftAlone
    BY <1>0, <2>1, StillFates
  <2>6. Rests
    BY <2>1, <2>2 DEF Rests, Fail
  <2> QED  BY <2>1, <2>3, <2>4, <2>5, <2>6, Void DEF RunnerFacts
<1>11. ASSUME NEW r \in {"gateway", "receiver", "server"},
              NEW As, Kill(r, As), Onwards,
              UNCHANGED <<status, pidFile, csv, generator, sent, pmVars>>,
              IF r = "server"
              THEN /\ As = Attempts
                   /\ TryAt(16 + 3 * M) \/ FinallyAt(FinalSignal(r))
              ELSE /\ As = {pidFile[r]}
                   /\ TryAt(SignalPlace(r)) \/ FinallyAt(FinalSignal(r))
       PROVE  RunnerFacts
  <2>1. ~TryAt(3) /\ ~TryAt(TrafficPlace) /\ ~TryAt(18 + 3 * M) /\ ~TryAt(1)
    BY <1>0, <1>11 DEF Numbers, TryAt, FinallyAt
  <2>2. Control /\ Verdict
    BY <1>0, <1>11, <2>1, GoesOn
  <2>3. queue' \in {0, queue}
    BY <1>11, QueueAfterIs DEF Kill
  <2>4. Files /\ Others
    BY <1>0, <1>11, <2>1, <2>3 DEF Files, Others, pmVars
  <2> DEFINE T == {r} \X As
  <2>5. \A s \in Roles, a \in Attempts : <<s, a>> \in T <=> s = r /\ a \in As
    OBVIOUS
  <2>6. prog' = [s \in Roles |-> [a \in Attempts |->
                   IF <<s, a>> \in T THEN Signalled(s, prog[s][a])
                                    ELSE prog[s][a]]]
    <3>1. prog' = [prog EXCEPT ![r] = [a \in Attempts |->
                     IF a \in As THEN Signalled(r, prog[r][a])
                                ELSE prog[r][a]]]
      BY <1>11 DEF Kill
    <3>2. \A s \in Roles : prog[s] \in [Attempts -> ProgramState]
      BY <1>0 DEF ProgType
    <3>3. prog' = [s \in Roles |->
                     IF s = r THEN [a \in Attempts |->
                                     IF a \in As THEN Signalled(r, prog[r][a])
                                                ELSE prog[r][a]]
                              ELSE prog[s]]
      BY <1>0, <3>1 DEF ProgType
    <3> HIDE DEF T
    <3>4. ASSUME NEW s \in Roles
          PROVE  prog'[s] = [a \in Attempts |->
                               IF <<s, a>> \in T THEN Signalled(s, prog[s][a])
                                                ELSE prog[s][a]]
      <4>1. CASE s = r
        BY <2>5, <3>3, <4>1
      <4>2. CASE s # r
        <5>1. prog'[s] = prog[s] /\ prog[s] = [a \in Attempts |-> prog[s][a]]
          BY <3>2, <3>3, <4>2
        <5>2. \A a \in Attempts : <<s, a>> \notin T
          BY <2>5, <4>2
        <5> QED  BY <5>1, <5>2
      <4> QED  BY <4>1, <4>2
    <3> QED  BY <3>3, <3>4
  <2> HIDE DEF T
  <2>7. /\ Fates
        /\ \A s \in Roles, a \in Attempts :
             <<s, a>> \in T => Termed(s, prog[s][a], prog'[s][a])
    BY <1>0, <2>6, SignalFates
  <2>8. LeftAlone
    BY <1>0, <1>11 DEF LeftAlone, Numbers, TryAt, FinallyAt
  <2>9. Signals
    <3>1. ASSUME NEW s \in Tunnel,
                 TryAt(SignalPlace(s)) \/ FinallyAt(FinalSignal(s))
          PROVE  s = r /\ As = {pidFile[s]}
      BY <1>0, <1>11, <3>1 DEF Numbers, Tunnel, TryAt, FinallyAt
    <3>2. ASSUME FinallyAt(FinalSignal("server"))
          PROVE  "server" = r /\ As = Attempts
      BY <1>0, <1>11, <3>2 DEF Numbers, Tunnel, TryAt, FinallyAt
    <3>3. Tunnel \subseteq Roles /\ "server" \in Roles
      BY DEF Tunnel, Roles
    <3> QED  BY <2>1, <2>5, <2>7, <3>1, <3>2, <3>3 DEF Signals
  <2>10. Rests /\ Collects
    BY <1>11, Void DEF Tunnel
  <2> QED  BY <2>2, <2>4, <2>7, <2>8, <2>9, <2>10 DEF RunnerFacts
<1>12. ASSUME NEW r \in Tunnel, SignalProgram(r)
       PROVE  RunnerFacts
  <2>1. /\ r \in {"gateway", "receiver", "server"} /\ r # "server"
        /\ TryAt(SignalPlace(r)) \/ FinallyAt(FinalSignal(r))
        /\ Kill(r, {pidFile[r]}) /\ Onwards
        /\ UNCHANGED <<status, pidFile, csv, generator, sent, pmVars>>
    BY <1>0, <1>12, PlacesOf, AdvanceFrom DEF SignalProgram, Tunnel
  <2> QED  BY <1>11, <2>1
<1>13. CASE KillServers
  <2>1. /\ TryAt(16 + 3 * M) \/ FinallyAt(FinalSignal("server"))
        /\ Kill("server", Attempts) /\ Onwards
        /\ UNCHANGED <<status, pidFile, csv, generator, sent, pmVars>>
    BY <1>0, <1>13, PlacesOf, AdvanceFrom DEF KillServers
  <2> QED  BY <1>11, <2>1
<1>14. ASSUME NEW r \in Roles, Collect(r)
       PROVE  RunnerFacts
  <2>1. /\ IF r = "server"
           THEN TryAt(17 + 3 * M) \/ FinallyAt(FinalCollect(r))
           ELSE r \in Tunnel
                /\ (TryAt(CollectPlace(r)) \/ FinallyAt(FinalCollect(r)))
        /\ Onwards
        /\ \/ ~Alive(r, attempt) /\ UNCHANGED prog
           \/ /\ Alive(r, attempt) /\ AtRest(r, attempt)
              /\ Set(r, attempt, [prog[r][attempt] EXCEPT !.attached = FALSE])
        /\ UNCHANGED <<status, pidFile, csv, generator, sent, queue, pmVars>>
    BY <1>0, <1>14, PlacesOf, AdvanceFrom DEF Collect, Roles, Tunnel
  <2>2. ~TryAt(3) /\ ~TryAt(TrafficPlace) /\ ~TryAt(18 + 3 * M)
    BY <1>0, <2>1 DEF Numbers, Tunnel, TryAt, FinallyAt
  <2>3. Control /\ Verdict /\ Files /\ Others
    BY <1>0, <2>1, <2>2, GoesOn DEF Files, Others, pmVars
  <2>4. Rests /\ Signals
    BY <2>1, Void DEF Tunnel
  <2>5. LeftAlone
    BY <1>0, <2>1 DEF LeftAlone, Numbers, Tunnel, TryAt, FinallyAt
  <2>6. \A s \in Roles :
          ((s \in Tunnel /\ TryAt(CollectPlace(s)))
             \/ FinallyAt(FinalCollect(s))) => s = r
    <3>1. SUFFICES ASSUME NEW s \in Roles,
                          (s \in Tunnel /\ TryAt(CollectPlace(s)))
                             \/ FinallyAt(FinalCollect(s))
                   PROVE  s = r
      OBVIOUS
    <3> QED  BY <1>0, <2>1, <3>1 DEF Numbers, Roles, Tunnel, TryAt, FinallyAt
  <2>7. CASE ~Alive(r, attempt) /\ UNCHANGED prog
    <3>1. Fates
      BY <1>0, <2>7, StillFates
    <3>2. Collects
      BY <2>6, <2>7 DEF Collects, Gathered
    <3> QED  BY <2>3, <2>4, <2>5, <3>1, <3>2 DEF RunnerFacts
  <2>8. CASE /\ Alive(r, attempt) /\ AtRest(r, attempt)
             /\ Set(r, attempt, [prog[r][attempt] EXCEPT !.attached = FALSE])
             /\ attempt \in Attempts
    <3> DEFINE p == prog[r][attempt]
               n == [p EXCEPT !.attached = FALSE]
    <3>1. p \in ProgramState /\ p.at \in Seen(r) \cup {"none", "gone"}
          /\ p.at \notin {"none", "gone"}
      BY <1>0, <2>8 DEF Alive, At
    <3> HIDE DEF p
    <3>2. /\ n \in ProgramState /\ n.at = p.at /\ n.stop = p.stop
          /\ n.count = p.count /\ n.logged = p.logged
          /\ n.attached = FALSE /\ n.figures = p.figures
      BY <3>1 DEF ProgramState
    <3> HIDE DEF n
    <3>3. Evolves(r, p, n)
      BY <3>1, <3>2, StillEvolves DEF Evolves
    <3>4. prog'[r][attempt] = n /\ OthersSame(r, attempt) /\ ProgType'
      BY <1>0, <2>8, <3>2, SetIs DEF n, p
    <3>5. Fates
      <4>1. ASSUME NEW s \in Roles, NEW a \in Attempts
            PROVE  /\ Evolves(s, prog[s][a], prog'[s][a])
                   /\ prog'[s][a].at \in HeldAt(s) => prog[s][a].at \in HeldAt(s)
                   /\ prog'[s][a].count = prog[s][a].count
                   /\ prog'[s][a].logged = prog[s][a].logged
                   /\ prog[s][a].at = "summary" => prog'[s][a].at = "summary"
        <5>1. CASE s = r /\ a = attempt
          BY <3>2, <3>3, <3>4, <5>1 DEF p
        <5>2. CASE s # r \/ a # attempt
          <6>1. prog'[s][a] = prog[s][a]
            BY <3>4, <5>2 DEF OthersSame
          <6> QED  BY <1>0, <6>1, StillEvolves
        <5> QED  BY <5>1, <5>2
      <4> QED  BY <3>4, <4>1 DEF Fates
    <3>6. Collects
      BY <2>6, <2>8, <3>2, <3>4 DEF Collects, Gathered, p
    <3> QED  BY <2>3, <2>4, <2>5, <3>5, <3>6 DEF RunnerFacts
  <2>9. attempt \in Attempts
    BY <1>16, <2>1
  <2> QED  BY <2>1, <2>7, <2>8, <2>9
<1>15. ASSUME NEW r \in Roles, StartProgram(r)
       PROVE  RunnerFacts
  <2>1. /\ TryAt(StartPlace(r)) /\ Onwards
        /\ Set(r, attempt, [NoProgram EXCEPT !.at = Stages(r)[1],
                                             !.attached = TRUE])
        /\ UNCHANGED <<status, pidFile, csv, generator, sent, queue, pmVars>>
    BY <1>0, <1>15, PlacesOf, AdvanceFrom DEF StartProgram
  <2>2. /\ ~TryAt(3) /\ ~TryAt(TrafficPlace) /\ ~TryAt(18 + 3 * M)
        /\ \A s \in Roles : TryAt(StartPlace(s)) => s = r
    BY <1>0, <2>1 DEF Numbers, Roles, TryAt
  <2>3. Control /\ Verdict /\ Files /\ Others
    BY <1>0, <2>1, <2>2, GoesOn DEF Files, Others, pmVars
  <2>4. Rests /\ Signals /\ Collects
    BY <2>1, Void
  <2>5. attempt \in Attempts
    BY <1>16, <2>1
  <2> DEFINE n == [NoProgram EXCEPT !.at = Stages(r)[1], !.attached = TRUE]
  <2>6. n \in ProgramState
    <3>1. Stages(r)[1] \in StageNames
      BY <1>0, AfterIs DEF StageNames, Roles, Tunnel
    <3>2. NoFigures \in NoFigures .. MaxAttempts
      BY ExperimentAssumption DEF ExperimentAssumption, NoFigures
    <3> QED  BY <3>1, <3>2 DEF NoProgram, ProgramState
  <2> HIDE DEF n
  <2>7. prog'[r][attempt] = n /\ OthersSame(r, attempt) /\ ProgType'
    BY <1>0, <2>1, <2>5, <2>6, SetIs DEF n
  <2>8. Started(r, attempt)
    BY <2>1, <2>7 DEF Started, n
  <2>9. Fates /\ LeftAlone
    <3>1. ASSUME NEW s \in Roles, NEW a \in Attempts, ~Started(s, a)
          PROVE  prog'[s][a] = prog[s][a]
      BY <2>7, <2>8, <3>1 DEF OthersSame
    <3>2. \A s \in Roles, a \in Attempts : Evolves(s, prog[s][a], prog[s][a])
      BY <1>0, StillEvolves
    <3> QED  BY <2>7, <3>1, <3>2 DEF Fates, LeftAlone
  <2> QED  BY <2>3, <2>4, <2>9 DEF RunnerFacts
<1>17. CASE RunnerFails
  <2>1. /\ TryAt(3) \/ (\E r \in Roles : TryAt(StartPlace(r)))
           \/ (M = 1 /\ TryAt(6)) \/ TryAt(18 + 3 * M)
        /\ Fail
        /\ UNCHANGED <<prog, pidFile, csv, generator, sent, queue, pmVars>>
    BY <1>0, <1>17, RaisingPlaces DEF RunnerFails
  <2>2. runner'.in = "finally" /\ ~TryAt(TrafficPlace)
    BY <1>0, <2>1 DEF Fail, Numbers, Roles, TryAt
  <2>3. Control /\ Verdict
    <3>1. Raises
      BY <1>0, <2>1 DEF Raises, Numbers, Roles, TryAt
    <3> QED  BY <2>1, <3>1 DEF Control, Verdict, Fail
  <2>4. Files /\ Others
    BY <1>0, <2>1, <2>2 DEF Files, Others, pmVars
  <2>5. Fates /\ LeftAlone
    BY <1>0, <2>1, StillFates
  <2>6. Rests /\ Signals /\ Collects
    BY <2>1, Void
  <2> QED  BY <2>3, <2>4, <2>5, <2>6 DEF RunnerFacts
<1> QED  BY <1>2, <1>3, <1>4, <1>5, <1>6, <1>7, <1>8, <1>9, <1>10, <1>12,
            <1>13, <1>14, <1>15, <1>17 DEF RunnerStep, Tunnel

-----------------------------------------------------------------------------
(* What every step but the start of an attempt has in common *)

Evolution ==
  /\ ProgType'
  /\ \A r \in Roles, a \in Attempts :
       Evolves(r, prog[r][a], prog'[r][a]) \/ Started(r, a)
\* Who comes to have the queue or port finds nobody else with it.
Newcomers ==
  \A r \in Roles, a \in Attempts :
    prog'[r][a].at \in HeldAt(r) /\ prog[r][a].at \notin HeldAt(r) =>
      \A b \in Attempts \ {a} : /\ prog[r][b].at \notin HeldAt(r)
                                /\ prog'[r][b] = prog[r][b]
Where ==
  \/ Control /\ kills' = kills
  \/ runner' = runner /\ generator' = generator /\ kills' = kills
  \/ /\ runner' = runner /\ kills' = kills
     /\ generator = "on" /\ generator' \in {"done", "failed"}
  \/ /\ runner' = Idle /\ runner.in = "try" /\ kills' = kills + 1
     /\ generator' = generator /\ generator # "on"
Going == /\ plan' = plan /\ attempt' = attempt
         /\ Evolution /\ Newcomers /\ Where

\* A program's step and what it leaves alone.
ProgramMoves(r, a) ==
  /\ StepFacts(r, a)
  /\ UNCHANGED <<plan, attempt, runner, status, generator, sent, inWindow,
                 kills, metricsFile, monitorAt>>
Still ==
  /\ prog' = prog /\ plan' = plan /\ attempt' = attempt

\* Every step of a program, with what it does to files and channels.
LEMMA ProgramStepIs ==
  ASSUME Types, Sound, NEW r \in Roles, NEW a \in Attempts, ProgramStep(r, a)
  PROVE  ProgramMoves(r, a)
  BY StepIs DEF ProgramStep, ProgramMoves, pmVars

\* The step of a program is a step within an attempt.
LEMMA ProgramGoing ==
  ASSUME Types, Sound, NEW r \in Roles, NEW a \in Attempts, ProgramMoves(r, a)
  PROVE  Going
<1>1. /\ OthersSame(r, a) /\ ProgType' /\ Claims(r, a)
      /\ Evolves(r, prog[r][a], prog'[r][a])
  BY DEF ProgramMoves, StepFacts
<1>2. \A s \in Roles, b \in Attempts :
        /\ prog[s][b] \in ProgramState
        /\ prog[s][b].at \in Seen(s) \cup {"none", "gone"}
  BY DEF Types, Sound, Programs1, At
<1>3. ASSUME NEW s \in Roles, NEW b \in Attempts, s # r \/ b # a
      PROVE  prog'[s][b] = prog[s][b]
  BY <1>1, <1>3 DEF OthersSame
<1>4. Evolution
  <2>1. ASSUME NEW s \in Roles, NEW b \in Attempts
        PROVE  Evolves(s, prog[s][b], prog'[s][b])
    <3>1. CASE s = r /\ b = a
      BY <1>1, <3>1
    <3>2. CASE s # r \/ b # a
      BY <1>2, <1>3, <3>2, StillEvolves
    <3> QED  BY <3>1, <3>2
  <2> QED  BY <1>1, <2>1 DEF Evolution
<1>5. Newcomers
  <2>1. ASSUME NEW s \in Roles, NEW b \in Attempts,
               prog'[s][b].at \in HeldAt(s), prog[s][b].at \notin HeldAt(s)
        PROVE  \A c \in Attempts \ {b} : /\ prog[s][c].at \notin HeldAt(s)
                                         /\ prog'[s][c] = prog[s][c]
    <3>1. s = r /\ b = a
      BY <1>3, <2>1
    <3> QED  BY <1>1, <1>3, <2>1, <3>1 DEF Claims, Held, At
  <2> QED  BY <2>1 DEF Newcomers
<1>6. Where
  BY DEF Where, ProgramMoves
<1> QED  BY <1>4, <1>5, <1>6 DEF Going, ProgramMoves

\* So is one that leaves the programs and their files alone.
LEMMA StillGoing ==
  ASSUME Types, Sound, Still, Where
  PROVE  Going
<1>1. \A s \in Roles, b \in Attempts :
        /\ prog[s][b] \in ProgramState
        /\ prog[s][b].at \in Seen(s) \cup {"none", "gone"}
  BY DEF Types, Sound, Programs1, At
<1>2. Evolution
  BY <1>1, StillEvolves DEF Evolution, Still, ProgType, Types
<1> QED  BY <1>2 DEF Going, Still, Newcomers

\* So is one of the runner, the start of an attempt apart.
LEMMA RunnerGoing ==
  ASSUME Types, Sound, Course, RunnerFacts
  PROVE  Going
<1>1. Fates /\ Where /\ plan' = plan /\ attempt' = attempt
  BY DEF RunnerFacts, Where, Others
<1>2. Evolution
  BY <1>1 DEF Fates, Evolution
<1>3. Newcomers
  <2>1. ASSUME NEW r \in Roles, NEW a \in Attempts,
               prog'[r][a].at \in HeldAt(r), prog[r][a].at \notin HeldAt(r)
        PROVE  FALSE
    <3>1. Started(r, a)
      BY <1>1, <2>1 DEF Fates
    <3>2. prog'[r][a].at = Stages(r)[1]
      BY <3>1 DEF Started, NoProgram
    <3>3. Stages(r)[1] \notin HeldAt(r)
      <4>1. plan \in Plans
        BY DEF Types
      <4>2. CASE r = "server"
        BY <4>1, <4>2, AfterIs DEF HeldAt
      <4>3. CASE r # "server"
        BY <4>1, <4>3, AfterIs DEF HeldAt, Roles, Tunnel
      <4> QED  BY <4>2, <4>3
    <3> QED  BY <2>1, <3>2, <3>3
  <2> QED  BY <2>1 DEF Newcomers
<1> QED  BY <1>1, <1>2, <1>3 DEF Going

-----------------------------------------------------------------------------
(* Types, Sound, Exclusive *)

\* Within an attempt, every program stays sound by itself.
LEMMA SoundGoes ==
  ASSUME Types, Sound, Going
  PROVE  Sound'
<1> SUFFICES ASSUME NEW r \in Roles, NEW a \in Attempts
             PROVE  Programs1(r, a)'
  BY DEF Sound
<1> DEFINE p == prog[r][a]  n == prog'[r][a]
<1>1. /\ p \in ProgramState /\ n \in ProgramState /\ plan \in Plans
      /\ attempt' = attempt /\ p.logged \in BOOLEAN /\ n.logged \in BOOLEAN
  BY DEF Types, Going, Evolution, ProgType, ProgramState
<1>2. /\ p.at \in Seen(r) \cup {"none", "gone"}
      /\ p.at = "none" => p = NoProgram
      /\ a > attempt => p.at = "none"
      /\ p.at \in Early => p.count = 0
      /\ p.logged /\ r # "server" => p.at \in {"summary", "release", "gone"}
      /\ p.logged => p.at \notin Early
  BY DEF Sound, Programs1, At
<1>3. CASE Evolves(r, p, n)
  <2> HIDE DEF p, n
  <2>1. /\ n.at \in Seen(r) \cup {"none", "gone"}
        /\ n.at = "none" => n = NoProgram
        /\ a > attempt => n.at = "none"
        /\ n.at \in Early => n.count = 0
        /\ n.logged /\ r # "server" => n.at \in {"summary", "release", "gone"}
        /\ n.logged => n.at \notin Early
    BY <1>1, <1>2, <1>3 DEF Evolves, Early
  <2> QED  BY <1>1, <2>1 DEF Programs1, At, n
<1>4. CASE Started(r, a)
  <2>1. /\ n.at = Stages(r)[1] /\ n.count = 0 /\ n.logged = FALSE
        /\ a = attempt
    BY <1>4 DEF Started, NoProgram
  <2>2. /\ Stages(r)[1] \in Seen(r) /\ Stages(r)[1] # "none"
    BY <1>1, AfterIs DEF Seen, Roles, Tunnel
  <2>3. attempt \in Nat
    BY DEF Types
  <2> QED  BY <1>1, <2>1, <2>2, <2>3 DEF Programs1, At
<1> QED  BY <1>3, <1>4 DEF Going, Evolution

\* Within an attempt, nobody claims a queue or a port another holds: mq_open
\* of a queue in use and bind of a port in use fail.
LEMMA ExclusiveGoes ==
  ASSUME Types, Sound, Exclusive, Going
  PROVE  Exclusive'
<1> SUFFICES ASSUME NEW r \in Roles, NEW a \in Attempts, NEW b \in Attempts,
                    Held(r, a)', Held(r, b)', a # b
             PROVE  FALSE
  BY DEF Exclusive
<1>1. Newcomers
  BY DEF Going
<1>2. CASE Held(r, a) /\ Held(r, b)
  BY <1>2 DEF Exclusive
<1>3. CASE ~Held(r, a)
  BY <1>1, <1>3 DEF Newcomers, Held, At
<1>4. CASE ~Held(r, b)
  BY <1>1, <1>4 DEF Newcomers, Held, At
<1> QED  BY <1>2, <1>3, <1>4

\* The start of an attempt.
Begins(p, n) ==
  \/ p.at = "gone" /\ n = NoProgram
  \/ /\ p.at # "gone" /\ n.at = p.at /\ n.stop = p.stop
     /\ n.count = p.count /\ n.figures = p.figures
     /\ n.logged = FALSE /\ n.attached = FALSE /\ n \in ProgramState
     /\ p = NoProgram => n = NoProgram
Fresh ==
  /\ ProgType'
  /\ \A r \in Roles, a \in Attempts : Begins(prog[r][a], prog'[r][a])
  /\ plan' = plan /\ attempt' = attempt + 1 /\ attempt < plan.attempts
  /\ runner = Idle /\ runner' = [in |-> "try", at |-> 1]
  /\ status' = "running" /\ generator' = "off" /\ sent' = 0
  /\ inWindow' = TRUE /\ queue' = 0 /\ wire' = 0 /\ out' = 0
  /\ UNCHANGED <<pidFile, csv, kills, metricsFile, monitorAt>>

\* The start of an attempt, described by Fresh.
LEMMA InvokeIs ==
  ASSUME Types, Invoke
  PROVE  Fresh
<1>1. NoProgram \in ProgramState
  <2>1. NoFigures \in NoFigures .. MaxAttempts
    BY ExperimentAssumption DEF ExperimentAssumption, NoFigures
  <2> QED  BY <2>1 DEF NoProgram, ProgramState, StageNames
<1>2. ASSUME NEW r \in Roles, NEW a \in Attempts
      PROVE  Begins(prog[r][a], prog'[r][a]) /\ prog'[r][a] \in ProgramState
  <2> DEFINE p == prog[r][a]
             q == [p EXCEPT !.logged = FALSE, !.attached = FALSE]
  <2>1. p \in ProgramState
    BY DEF Types
  <2>2. prog'[r][a] = IF p.at = "gone" THEN NoProgram ELSE q
    BY DEF Invoke, At
  <2> HIDE DEF p
  <2>3. /\ q \in ProgramState /\ q.at = p.at /\ q.stop = p.stop
        /\ q.count = p.count /\ q.figures = p.figures
        /\ q.logged = FALSE /\ q.attached = FALSE
    BY <2>1 DEF ProgramState
  <2>4. p = NoProgram => q = NoProgram
    <3>1. SUFFICES ASSUME p = NoProgram
                   PROVE  q = NoProgram
      OBVIOUS
    <3>2. q = [NoProgram EXCEPT !.logged = FALSE, !.attached = FALSE]
      BY <3>1
    <3> HIDE DEF q
    <3> QED  BY <3>2 DEF NoProgram
  <2> HIDE DEF q
  <2>5. Begins(p, IF p.at = "gone" THEN NoProgram ELSE q)
    BY <2>3, <2>4 DEF Begins
  <2> QED  BY <1>1, <2>2, <2>3, <2>5 DEF p
<1>3. ProgType'
  <2>1. prog' = [r \in Roles |-> [a \in Attempts |-> prog'[r][a]]]
    BY DEF Invoke
  <2> QED  BY <1>2, <2>1 DEF ProgType
<1> QED  BY <1>2, <1>3 DEF Invoke, Fresh, pmVars

\* A new attempt starts with nothing of its own: no program, no claim.
LEMMA SoundFresh ==
  ASSUME Types, Sound, Fresh
  PROVE  Sound' /\ (Exclusive => Exclusive')
<1>1. ASSUME NEW r \in Roles, NEW a \in Attempts
      PROVE  Programs1(r, a)' /\ (Held(r, a)' => Held(r, a))
  <2> DEFINE p == prog[r][a]  n == prog'[r][a]
  <2>1. /\ p.at \in Seen(r) \cup {"none", "gone"}
        /\ p.at = "none" => p = NoProgram
        /\ a > attempt => p.at = "none"
        /\ p.at \in Early => p.count = 0
        /\ p \in ProgramState
    BY DEF Sound, Programs1, At, Types
  <2>2. Begins(p, n) /\ attempt' = attempt + 1 /\ attempt \in Nat
    BY DEF Fresh, Types
  <2> HIDE DEF p, n
  <2>3. /\ n.at \in Seen(r) \cup {"none", "gone"}
        /\ n.at = "none" => n = NoProgram
        /\ n.at \in Early => n.count = 0
        /\ n.logged = FALSE
        /\ n.at \in HeldAt(r) => p.at \in HeldAt(r)
    BY <2>1, <2>2 DEF Begins, NoProgram, HeldAt
  <2>4. a > attempt' => n.at = "none"
    <3>1. a \in Nat
      BY DEF Attempts
    <3>2. a > attempt' => a > attempt
      BY <2>2, <3>1
    <3> QED  BY <2>1, <2>2, <3>2 DEF Begins, NoProgram
  <2> QED  BY <2>3, <2>4 DEF Programs1, Held, At, p, n
<1>2. Sound'
  BY <1>1 DEF Sound
<1>3. Exclusive => Exclusive'
  BY <1>1 DEF Exclusive
<1> QED  BY <1>2, <1>3

-----------------------------------------------------------------------------
(* The steps that touch no program and no file a program or the runner     *)
(* reads: those of the generator and the monitor, and the death of the     *)
(* runner.                                                                 *)

Dies == /\ runner.in = "try" /\ generator # "on"
        /\ runner' = Idle /\ kills' = kills + 1
        /\ UNCHANGED <<generator, sent, queue>>
Sends == /\ generator = "on" /\ sent < Target /\ sent' = sent + 1
         /\ queue' = IF \E a \in Attempts : Held("gateway", a)
                     THEN queue + 1 ELSE queue
         /\ UNCHANGED <<generator, runner, kills>>
Ends == /\ generator = "on" /\ generator' \in {"done", "failed"}
        /\ UNCHANGED <<sent, queue, runner, kills>>
Watches == UNCHANGED <<generator, sent, queue, runner, kills>>
Quiet ==
  /\ Dies \/ Sends \/ Ends \/ Watches
  /\ UNCHANGED <<plan, attempt, status, prog, csv, wire, out>>
  /\ \A r \in Tunnel : pidFile'[r] = pidFile[r]
  /\ pidFile' \in [{"gateway", "receiver", "monitor"} -> 0 .. MaxAttempts]
  /\ inWindow' \in BOOLEAN
  /\ metricsFile' \in NoFile .. MaxAttempts
  /\ monitorAt' \in [Monitors -> {"none", "shell", "measure", "publish",
                                  "gone"}]

\* The steps of the generator and the monitor, the death of the runner and
\* the stutter touch no program and none of its files.
LEMMA QuietIs ==
  ASSUME Types, Sound
  PROVE  /\ GeneratorStep => Quiet
         /\ RunnerKilled => Quiet
         /\ \A m \in Monitors : MonitorStep(m) => Quiet
         /\ UNCHANGED expVars => Quiet
<1>0. /\ plan \in Plans /\ MaxAttempts \in Nat
      /\ monitorAt \in [Monitors -> {"none", "shell", "measure", "publish",
                                     "gone"}]
      /\ metricsFile \in NoFile .. MaxAttempts
      /\ pidFile \in [{"gateway", "receiver", "monitor"} -> 0 .. MaxAttempts]
      /\ inWindow \in BOOLEAN
  BY ExperimentAssumption DEF Types, ExperimentAssumption
<1>1. ASSUME GeneratorStep
      PROVE  Quiet
  <2>1. /\ UNCHANGED <<plan, attempt, runner, status, prog, pidFile, csv,
                       wire, out, kills, metricsFile, monitorAt>>
        /\ SendPacket \/ GeneratorEnds
    BY <1>1 DEF GeneratorStep, pmVars
  <2>2. CASE SendPacket
    <3>1. Sends /\ inWindow' = inWindow
      BY <1>0, <2>1, <2>2, HoldsIs
         DEF SendPacket, Sends, Onward, Types, Roles
    <3> QED  BY <1>0, <2>1, <3>1 DEF Quiet
  <2>3. CASE GeneratorEnds
    <3>1. Ends /\ inWindow' \in BOOLEAN
      BY <2>1, <2>3 DEF GeneratorEnds, Ends
    <3> QED  BY <1>0, <2>1, <3>1 DEF Quiet
  <2> QED  BY <2>1, <2>2, <2>3
<1>2. ASSUME RunnerKilled
      PROVE  Quiet
  BY <1>0, <1>2 DEF RunnerKilled, Quiet, Dies, pmVars
<1>3. ASSUME NEW m \in Monitors, MonitorStep(m)
      PROVE  Quiet
  <2>1. /\ Watches
        /\ UNCHANGED <<plan, attempt, status, prog, csv, wire, out, inWindow>>
    BY <1>3 DEF MonitorStep, Watches
  <2>2. m \in 1 .. MaxAttempts /\ NoFile = -2 /\ Empty = -1
    BY ExperimentAssumption DEF ExperimentAssumption, NoFile, Empty
  <2>3. /\ monitorAt' \in [Monitors -> {"none", "shell", "measure",
                                        "publish", "gone"}]
        /\ metricsFile' \in NoFile .. MaxAttempts
    BY <1>0, <1>3, <2>2 DEF MonitorStep, Measure, Publish, pmVars
  <2>4. /\ pidFile' \in [{"gateway", "receiver", "monitor"}
                           -> 0 .. MaxAttempts]
        /\ \A r \in Tunnel : pidFile'[r] = pidFile[r]
    <3>1. CASE pidFile' = pidFile
      BY <1>0, <3>1
    <3>2. CASE pidFile' = [pidFile EXCEPT !["monitor"] = m]
      BY <1>0, <2>2, <3>2 DEF Tunnel
    <3> QED  BY <1>3, <3>1, <3>2 DEF MonitorStep
  <2> QED  BY <1>0, <2>1, <2>3, <2>4 DEF Quiet
<1>4. ASSUME UNCHANGED expVars
      PROVE  Quiet
  BY <1>0, <1>4 DEF expVars, pmVars, Quiet, Watches
<1> QED  BY <1>1, <1>2, <1>3, <1>4

\* A quiet step is a step within an attempt.
LEMMA QuietGoing ==
  ASSUME Types, Sound, Course, Quiet
  PROVE  Going
<1>1. prog' = prog /\ plan' = plan /\ attempt' = attempt
  BY DEF Quiet
<1>2. \A s \in Roles, b \in Attempts :
        /\ prog[s][b] \in ProgramState
        /\ prog[s][b].at \in Seen(s) \cup {"none", "gone"}
  BY DEF Types, Sound, Programs1, At
<1>3. Evolution
  BY <1>1, <1>2, StillEvolves DEF Evolution, ProgType, Types
<1>4. CASE Sends \/ Ends \/ Watches \/ Dies
  <2>1. \/ /\ runner' = runner /\ kills' = kills
           /\ generator' = generator
             \/ (generator = "on" /\ generator' \in {"done", "failed"})
        \/ Dies
    BY <1>4 DEF Sends, Ends, Watches
  <2>2. Newcomers
    BY <1>1 DEF Newcomers
  <2>3. Where
    BY <2>1 DEF Where, Dies
  <2> QED  BY <1>1, <1>3, <2>2, <2>3 DEF Going
<1> QED  BY <1>4 DEF Quiet

\* The plan fixes whether there is a monitor.
LEMMA MSame ==
  ASSUME plan' = plan
  PROVE  M' = M
  BY DEF M

-----------------------------------------------------------------------------
(* Types *)

\* The start of an attempt keeps the types.
LEMMA TypesFresh ==
  ASSUME Types, Fresh
  PROVE  Types'
<1>1. /\ plan \in Plans /\ plan.packets \in Nat \ {0} /\ plan.attempts \in Nat
      /\ M \in {0, 1} /\ M' = M /\ plan' = plan
  BY ExperimentAssumption, MIs, MSame DEF Types, Fresh, ExperimentAssumption
<1>2. Somewhere'
  BY <1>1 DEF Fresh, Somewhere
<1>3. attempt' \in 0 .. plan'.attempts
  BY <1>1 DEF Fresh, Types
<1>4. sent' \in 0 .. Target' /\ queue' + wire' + out' <= sent'
  BY <1>1 DEF Fresh, Target
<1> QED  BY <1>1, <1>2, <1>3, <1>4 DEF Types, Fresh, ProgType

\* A step of the runner keeps the types.
LEMMA TypesRunner ==
  ASSUME Types, RunnerFacts
  PROVE  Types'
<1>1. /\ plan \in Plans /\ plan.packets \in Nat \ {0} /\ plan.attempts \in Nat
      /\ M \in {0, 1} /\ M' = M /\ plan' = plan /\ attempt' = attempt
      /\ Numbers
  BY ExperimentAssumption, MIs, MSame, NumbersAre
     DEF Types, RunnerFacts, Others, ExperimentAssumption
<1>2. Somewhere'
  <2>1. Control /\ Somewhere
    BY DEF RunnerFacts, Types
  <2>2. CASE Onwards
    BY <1>1, <2>1, <2>2 DEF Onwards, Somewhere, Idle
  <2>3. CASE runner' = runner
    BY <1>1, <2>1, <2>3 DEF Somewhere
  <2>4. CASE runner' = [in |-> "finally", at |-> 1]
    BY <1>1, <2>4 DEF Somewhere
  <2>5. \/ Onwards \/ runner' = runner
        \/ runner' = [in |-> "finally", at |-> 1]
    BY <2>1 DEF Control
  <2> QED  BY <2>2, <2>3, <2>4, <2>5
<1>3. generator' \in {"off", "on", "done", "timed", "failed"}
      /\ status' \in {"none", "running", "valid", "failed"}
  <2>1. generator' = generator \/ generator' \in {"on", "timed"}
    BY DEF RunnerFacts, Control
  <2>2. status' = status \/ status' = "failed" \/ status' = "valid"
    BY DEF RunnerFacts, Verdict
  <2> QED  BY <2>1, <2>2 DEF Types
<1>4. pidFile' \in [{"gateway", "receiver", "monitor"} -> 0 .. MaxAttempts]
      /\ csv' \in [Tunnel -> [by : 0 .. MaxAttempts, count : Nat]]
  <2>1. Files /\ MaxAttempts \in Nat
        /\ pidFile \in [{"gateway", "receiver", "monitor"} -> 0 .. MaxAttempts]
        /\ csv \in [Tunnel -> [by : 0 .. MaxAttempts, count : Nat]]
    BY ExperimentAssumption DEF RunnerFacts, Types, ExperimentAssumption
  <2>2. NoSummary \in [by : 0 .. MaxAttempts, count : Nat]
    BY <2>1 DEF NoSummary
  <2> QED  BY <2>1, <2>2 DEF Files
<1>5. /\ sent' \in 0 .. Target' /\ queue' \in Nat /\ wire' \in Nat
      /\ out' \in Nat /\ queue' + wire' + out' <= sent'
  <2>1. /\ sent \in 0 .. Target /\ queue \in Nat /\ wire \in Nat
        /\ out \in Nat /\ queue + wire + out <= sent
        /\ Target' = Target /\ Target \in Nat
    BY <1>1 DEF Types, Target
  <2>2. /\ sent' = sent /\ queue' \in {0, queue} /\ wire' = wire
        /\ out' = out
    BY DEF RunnerFacts, Others
  <2>3. sent' \in 0 .. Target'
    BY <2>1, <2>2
  <2>4. CASE queue' = 0
    BY <2>1, <2>2, <2>3, <2>4
  <2>5. CASE queue' = queue
    BY <2>1, <2>2, <2>3, <2>5
  <2> QED  BY <2>2, <2>4, <2>5
<1>6. /\ ProgType' /\ inWindow' \in BOOLEAN /\ kills' \in Nat
      /\ metricsFile' \in NoFile .. MaxAttempts
      /\ monitorAt' \in [Monitors -> {"none", "shell", "measure", "publish",
                                      "gone"}]
      /\ attempt' \in 0 .. plan'.attempts
  BY <1>1 DEF RunnerFacts, Others, Fates, Types
<1> QED  BY <1>1, <1>2, <1>3, <1>4, <1>5, <1>6 DEF Types, ProgType

\* A step of a program keeps the types.
LEMMA TypesProgram ==
  ASSUME Types, NEW r \in Roles, NEW a \in Attempts, ProgramMoves(r, a)
  PROVE  Types'
<1>1. /\ plan \in Plans /\ plan.packets \in Nat \ {0} /\ plan.attempts \in Nat
      /\ M' = M /\ plan' = plan /\ a \in 0 .. MaxAttempts
      /\ MaxAttempts \in Nat
  BY ExperimentAssumption, MSame
     DEF Types, ProgramMoves, ExperimentAssumption, Attempts
<1>2. Somewhere'
  BY <1>1 DEF ProgramMoves, Somewhere, Types
<1>3. /\ ProgType' /\ Passes(r, a) /\ WritesPid(r, a) /\ WritesSummary(r, a)
      /\ prog[r][a].count \in Nat
  BY DEF ProgramMoves, StepFacts, Types, ProgramState
<1>4. pidFile' \in [{"gateway", "receiver", "monitor"} -> 0 .. MaxAttempts]
  <2>1. pidFile \in [{"gateway", "receiver", "monitor"} -> 0 .. MaxAttempts]
    BY DEF Types
  <2> QED  BY <1>1, <1>3, <2>1 DEF WritesPid
<1>5. csv' \in [Tunnel -> [by : 0 .. MaxAttempts, count : Nat]]
  <2>1. csv \in [Tunnel -> [by : 0 .. MaxAttempts, count : Nat]]
    BY DEF Types
  <2>2. /\ NoSummary \in [by : 0 .. MaxAttempts, count : Nat]
        /\ [by |-> a, count |-> prog[r][a].count]
             \in [by : 0 .. MaxAttempts, count : Nat]
    BY <1>1, <1>3 DEF NoSummary
  <2> QED  BY <1>3, <2>1, <2>2 DEF WritesSummary
<1>6. /\ sent' \in 0 .. Target' /\ queue' \in Nat /\ wire' \in Nat
      /\ out' \in Nat /\ queue' + wire' + out' <= sent'
  <2>1. /\ sent \in 0 .. Target /\ queue \in Nat /\ wire \in Nat
        /\ out \in Nat /\ queue + wire + out <= sent
        /\ Target' = Target /\ Target \in Nat /\ sent' = sent
    BY <1>1 DEF Types, Target, ProgramMoves
  <2>2. /\ queue' \in Nat /\ wire' \in Nat /\ out' \in Nat
        /\ queue' + wire' + out' <= queue + wire + out
    BY <1>3, <2>1 DEF Passes
  <2>3. sent' \in 0 .. Target'
    BY <2>1
  <2>4. queue' + wire' + out' <= sent'
    <3>1. \A q1, w1, o1, q, w, o, n \in Nat :
            q1 + w1 + o1 <= q + w + o /\ q + w + o <= n => q1 + w1 + o1 <= n
      OBVIOUS
    <3>2. sent \in Nat
      BY <2>1
    <3> QED  BY <2>1, <2>2, <3>1, <3>2
  <2> QED  BY <2>2, <2>3, <2>4
<1> QED  BY <1>1, <1>2, <1>3, <1>4, <1>5, <1>6
            DEF Types, ProgType, ProgramMoves

\* A quiet step keeps the types.
LEMMA TypesQuiet ==
  ASSUME Types, Quiet
  PROVE  Types'
<1>1. /\ plan \in Plans /\ plan.packets \in Nat \ {0} /\ plan.attempts \in Nat
      /\ M' = M /\ plan' = plan
  BY ExperimentAssumption, MSame DEF Types, Quiet, ExperimentAssumption
<1>2. Somewhere'
  BY <1>1 DEF Quiet, Somewhere, Types, Dies, Sends, Ends, Watches
<1>3. generator' \in {"off", "on", "done", "timed", "failed"} /\ kills' \in Nat
  BY DEF Quiet, Types, Dies, Sends, Ends, Watches
<1>4. /\ sent' \in 0 .. Target' /\ queue' \in Nat /\ wire' \in Nat
      /\ out' \in Nat /\ queue' + wire' + out' <= sent'
  <2>1. /\ sent \in 0 .. Target /\ queue \in Nat /\ wire \in Nat
        /\ out \in Nat /\ queue + wire + out <= sent
        /\ Target' = Target /\ Target \in Nat /\ wire' = wire /\ out' = out
    BY <1>1 DEF Types, Target, Quiet
  <2>2. CASE Sends
    BY <2>1, <2>2 DEF Sends
  <2>3. CASE Dies \/ Ends \/ Watches
    BY <2>1, <2>3 DEF Dies, Ends, Watches
  <2> QED  BY <2>2, <2>3 DEF Quiet
<1> QED  BY <1>1, <1>2, <1>3, <1>4 DEF Types, Quiet

-----------------------------------------------------------------------------
(* Course *)

\* The plan fixes the places of the script.
LEMMA PlacesSame ==
  ASSUME plan' = plan
  PROVE  /\ M' = M /\ TrafficPlace' = TrafficPlace
         /\ \A r : /\ StartPlace(r)' = StartPlace(r)
                   /\ AwaitPlace(r)' = AwaitPlace(r)
                   /\ SignalPlace(r)' = SignalPlace(r)
                   /\ CollectPlace(r)' = CollectPlace(r)
                   /\ FinalSignal(r)' = FinalSignal(r)
                   /\ FinalCollect(r)' = FinalCollect(r)
<1>1. M' = M
  BY DEF M
<1> QED  BY <1>1 DEF TrafficPlace, StartPlace, AwaitPlace, SignalPlace,
            CollectPlace, FinalSignal, FinalCollect

\* Whenever something of an attempt is there, there is an attempt.
LEMMA AttemptIn ==
  ASSUME Types, Course
  PROVE  /\ attempt \in Nat /\ attempt <= MaxAttempts /\ MaxAttempts \in Nat
         /\ attempt > 0 <=> attempt \in Attempts
         /\ runner # Idle => attempt \in Attempts
         /\ runner.in = "try" => attempt \in Attempts
         /\ runner.in = "finally" => attempt \in Attempts
         /\ generator # "off" => attempt \in Attempts
         /\ status # "none" => attempt \in Attempts
<1>1. /\ plan \in Plans /\ plan.attempts \in 1 .. MaxAttempts
      /\ MaxAttempts \in Nat /\ attempt \in 0 .. plan.attempts
  BY ExperimentAssumption DEF Types, ExperimentAssumption
<1>2. Idle.in # "try" /\ Idle.in # "finally"
  BY DEF Idle
<1>3. attempt = 0 => runner = Idle /\ generator = "off" /\ status = "none"
  BY DEF Course
<1> QED  BY <1>1, <1>2, <1>3 DEF Attempts

\* A new attempt has no traffic, and none of its programs has started.
LEMMA CourseFresh ==
  ASSUME Types, Sound, Fresh
  PROVE  Course'
<1>1. /\ attempt' = attempt + 1 /\ attempt \in Nat
      /\ runner' = [in |-> "try", at |-> 1]
      /\ generator' = "off" /\ sent' = 0 /\ plan' = plan
      /\ attempt + 1 <= plan.attempts /\ plan.attempts \in 1 .. MaxAttempts
      /\ MaxAttempts \in Nat
  BY ExperimentAssumption DEF Fresh, Types, ExperimentAssumption
<1>2. Numbers /\ M' = M /\ TrafficPlace' = TrafficPlace
  BY <1>1, NumbersAre, PlacesSame
<1>3. ASSUME NEW r \in Roles
      PROVE  prog'[r][attempt'] = NoProgram
  <2>1. attempt' \in Attempts /\ attempt' > attempt
    BY <1>1 DEF Attempts
  <2>2. prog[r][attempt'].at = "none" /\ prog[r][attempt'] = NoProgram
    BY <2>1 DEF Sound, Programs1, At
  <2> QED  BY <2>1, <2>2 DEF Fresh, Begins
<1>4. \A r \in Roles : /\ prog'[r][attempt'].count = 0
                       /\ prog'[r][attempt'].at = "none"
  BY <1>3 DEF NoProgram
<1>5. runner'.in = "try" /\ runner'.at = 1 /\ attempt' # 0
  BY <1>1
<1> QED  BY <1>1, <1>2, <1>4, <1>5 DEF Course, TryPast, TryAt, Numbers, At

\* The runner starts a program where it was not started yet, and has the
\* traffic sent at one place only.
LEMMA CourseRunner ==
  ASSUME Types, Sound, Course, RunnerFacts
  PROVE  Course'
<1>1. /\ plan' = plan /\ attempt' = attempt /\ Numbers /\ Somewhere
      /\ M' = M /\ TrafficPlace' = TrafficPlace /\ sent' = sent
      /\ \A r : StartPlace(r)' = StartPlace(r)
  BY NumbersAre, PlacesSame DEF RunnerFacts, Others, Types
<1>2. Control /\ Fates
  BY DEF RunnerFacts
<1>3. runner # Idle /\ (runner.in = "try" \/ runner.in = "finally")
  BY <1>2 DEF Control, Raises, Onwards, Idle, TryAt
<1>4. attempt \in Attempts /\ attempt # 0
  BY <1>3, AttemptIn DEF Attempts
<1>5. /\ runner'.in = "try" /\ runner'.at < TrafficPlace => generator' = "off"
      /\ TryPast(TrafficPlace)' => generator' = "timed"
      /\ generator' = "on" => TryAt(TrafficPlace)'
      /\ generator' = "off" => generator = "off"
  <2>1. /\ runner.in = "try" /\ runner.at < TrafficPlace => generator = "off"
        /\ TryPast(TrafficPlace) => generator = "timed"
        /\ generator = "on" => TryAt(TrafficPlace)
    BY DEF Course
  <2>2. runner.at \in Nat
    BY <1>1, <1>3 DEF Somewhere, Numbers
  <2>3. CASE \/ Onwards /\ ~TryAt(TrafficPlace) /\ generator' = generator
             \/ /\ Onwards /\ TryAt(TrafficPlace)
                /\ generator = "done" /\ generator' = "timed"
    <3>1. Idle.in # "try"
      BY DEF Idle
    <3>2. TrafficPlace \in Nat /\ TrafficPlace < 18 + 3 * M /\ M \in Nat
      BY <1>1 DEF Numbers
    <3>3. generator' # "on" /\ generator # "on"
      BY <2>1, <2>3
    <3> QED  BY <1>1, <2>1, <2>2, <2>3, <3>1, <3>2, <3>3
                DEF Onwards, TryAt, TryPast
  <2>4. CASE runner' = runner /\ TryAt(TrafficPlace) /\ generator' = "on"
    BY <1>1, <2>1, <2>4 DEF TryAt, TryPast, Numbers
  <2>5. CASE /\ runner' = [in |-> "finally", at |-> 1]
             /\ generator' = generator /\ Raises
    <3>1. generator # "on"
      BY <1>1, <2>1, <2>5 DEF Raises, TryAt, Numbers
    <3> QED  BY <1>1, <2>5, <3>1 DEF TryAt, TryPast
  <2> QED  BY <1>2, <2>3, <2>4, <2>5 DEF Control
<1>6. ASSUME NEW r \in Roles
      PROVE  /\ generator' = "off" => prog'[r][attempt].count = 0
             /\ runner'.in = "try" /\ runner'.at <= StartPlace(r) =>
                  prog'[r][attempt].at = "none"
  <2>1. CASE Started(r, attempt)
    <3>1. prog'[r][attempt].count = 0 /\ TryAt(StartPlace(r))
      BY <2>1 DEF Started, NoProgram
    <3>2. ~(runner'.in = "try" /\ runner'.at <= StartPlace(r))
      BY <1>1, <1>2, <3>1 DEF Control, Onwards, TryAt, Numbers, Roles
    <3> QED  BY <3>1, <3>2
  <2>2. CASE ~Started(r, attempt)
    <3>1. /\ Evolves(r, prog[r][attempt], prog'[r][attempt])
          /\ prog'[r][attempt].count = prog[r][attempt].count
      BY <1>2, <1>4, <2>2 DEF Fates
    <3>2. generator' = "off" => prog'[r][attempt].count = 0
      BY <1>4, <1>5, <3>1, AttemptIn DEF Course
    <3>3. runner'.in = "try" /\ runner'.at <= StartPlace(r) =>
            runner.in = "try" /\ runner.at <= StartPlace(r)
      BY <1>1, <1>2 DEF Control, Onwards, TryAt, Numbers, Roles, Idle,
         Somewhere
    <3>4. runner'.in = "try" /\ runner'.at <= StartPlace(r) =>
            prog[r][attempt].at = "none"
      BY <3>3 DEF Course, At
    <3> QED  BY <3>1, <3>2, <3>4 DEF Evolves
  <2> QED  BY <2>1, <2>2
<1>7. generator' = "off" => sent' = 0
  BY <1>1, <1>5 DEF Course
<1> QED  BY <1>1, <1>4, <1>5, <1>6, <1>7 DEF Course, At

\* A program counts nothing before the generator sends.
LEMMA CourseProgram ==
  ASSUME Types, Sound, Course, NEW r \in Roles, NEW a \in Attempts,
         ProgramMoves(r, a)
  PROVE  Course'
<1>1. /\ plan' = plan /\ attempt' = attempt /\ sent' = sent
      /\ M' = M /\ TrafficPlace' = TrafficPlace
      /\ \A s : StartPlace(s)' = StartPlace(s)
      /\ runner' = runner /\ generator' = generator /\ status' = status
  BY PlacesSame DEF ProgramMoves
<1>2. /\ OthersSame(r, a) /\ Passes(r, a)
      /\ Evolves(r, prog[r][a], prog'[r][a])
  BY DEF ProgramMoves, StepFacts
<1>3. generator = "off" => prog'[r][a].count = prog[r][a].count
  <2>1. generator = "off" => queue = 0 /\ wire = 0 /\ out = 0
    <3>1. /\ queue \in Nat /\ wire \in Nat /\ out \in Nat
          /\ queue + wire + out <= sent
          /\ generator = "off" => sent = 0
      BY DEF Types, Course
    <3> QED  BY <3>1
  <2> QED  BY <1>2, <2>1 DEF Passes
<1>4. ASSUME NEW s \in Roles, attempt \in Attempts
      PROVE  /\ generator = "off" => prog'[s][attempt].count = 0
             /\ prog[s][attempt].at = "none" => prog'[s][attempt].at = "none"
  <2>1. generator = "off" => prog[s][attempt].count = 0
    BY <1>4, AttemptIn DEF Course
  <2>2. CASE s = r /\ a = attempt
    BY <1>2, <1>3, <2>1, <2>2 DEF Evolves
  <2>3. CASE s # r \/ a # attempt
    BY <1>2, <1>4, <2>1, <2>3 DEF OthersSame
  <2> QED  BY <2>2, <2>3
<1>5. attempt > 0 \/ runner.in = "try" => attempt \in Attempts
  BY AttemptIn
<1> QED  BY <1>1, <1>4, <1>5 DEF Course, At, TryAt, TryPast

\* The generator sends nothing before it is started or after it is done.
LEMMA CourseQuiet ==
  ASSUME Types, Sound, Course, Quiet
  PROVE  Course'
<1>1. /\ plan' = plan /\ attempt' = attempt /\ status' = status
      /\ prog' = prog /\ M' = M /\ TrafficPlace' = TrafficPlace
      /\ \A s : StartPlace(s)' = StartPlace(s)
  BY PlacesSame DEF Quiet
<1>2. CASE Watches
  BY <1>1, <1>2 DEF Course, Watches, TryAt, TryPast, At
<1>3. CASE Dies
  <2>1. /\ runner' = Idle /\ generator' = generator /\ sent' = sent
        /\ generator # "on" /\ runner'.in # "try"
    BY <1>3 DEF Dies, Idle
  <2> QED  BY <1>1, <2>1 DEF Course, TryAt, TryPast, At
<1>4. CASE Sends \/ Ends
  <2>1. /\ runner' = runner /\ TryAt(TrafficPlace) /\ generator' # "off"
        /\ attempt # 0
        /\ generator' = "on" => generator = "on"
    BY <1>4 DEF Sends, Ends, Course
  <2>2. ~TryPast(TrafficPlace) /\ ~(runner.at < TrafficPlace)
    BY <2>1, NumbersAre DEF TryAt, TryPast, Numbers
  <2> QED  BY <1>1, <2>1, <2>2 DEF Course, TryAt, TryPast, At
<1> QED  BY <1>2, <1>3, <1>4 DEF Quiet

-----------------------------------------------------------------------------
(* Cleaning and OldStop: what becomes of the programs of earlier attempts *)

\* A new attempt has not cleaned up yet.
LEMMA CleaningFresh ==
  ASSUME Fresh
  PROVE  Cleaning'
  BY DEF Fresh, Cleaning, TryAt

\* After the pkill every living program has been told to stop.
LEMMA CleaningRunner ==
  ASSUME Types, Sound, RunnerFacts
  PROVE  Cleaning'
<1> SUFFICES ASSUME TryAt(2)', NEW r \in Roles, NEW a \in Attempts,
                    prog'[r][a].at \notin {"none", "gone"}
             PROVE  /\ prog'[r][a].stop
                    /\ prog'[r][a].at \in Leaving \cup {"about"} \/ r = "server"
  BY DEF Cleaning, Alive, At
<1>0. /\ Numbers /\ Somewhere /\ Control
      /\ runner'.in = "try" /\ runner'.at = 2
  BY NumbersAre DEF RunnerFacts, Types, TryAt
<1>1. TryAt(1)
  <2>1. CASE Onwards
    BY <1>0, <2>1 DEF Onwards, TryAt, Numbers, Idle, Somewhere
  <2>2. CASE runner' = runner /\ TryAt(TrafficPlace)
    BY <1>0, <2>2 DEF TryAt, Numbers
  <2>3. CASE runner' = [in |-> "finally", at |-> 1]
    BY <1>0, <2>3
  <2> QED  BY <1>0, <2>1, <2>2, <2>3 DEF Control
<1>2. Termed(r, prog[r][a], prog'[r][a])
  BY <1>1 DEF RunnerFacts, Signals
<1> DEFINE p == prog[r][a]  n == prog'[r][a]
<1> HIDE DEF p, n
<1>3. /\ p.at \in {"none", "gone"} => n = p
      /\ p.at \notin {"none", "gone"} =>
           \/ n.at = "gone" /\ p.at \in Early
           \/ n.stop /\ n.at \in (Leaving \ {"wait"}) \cup {"about"}
           \/ n.stop /\ r = "server" /\ n.at = "bind"
  BY <1>2 DEF Termed, p, n
<1>4. n.at \notin {"none", "gone"}
  BY DEF n
<1> QED  BY <1>3, <1>4 DEF p, n

\* A program that was told to stop does not take that back.
LEMMA CleaningKept ==
  ASSUME Types, Sound, Cleaning, Going, TryAt(2)' => TryAt(2)
  PROVE  Cleaning'
<1> SUFFICES ASSUME TryAt(2), NEW r \in Roles, NEW a \in Attempts,
                    prog'[r][a].at \notin {"none", "gone"}
             PROVE  /\ prog'[r][a].stop
                    /\ prog'[r][a].at \in Leaving \cup {"about"} \/ r = "server"
  BY DEF Cleaning, Alive, At
<1> DEFINE p == prog[r][a]  n == prog'[r][a]
<1>1. ~Started(r, a)
  BY NumbersAre DEF Started, Numbers, TryAt, Roles
<1>2. Evolves(r, p, n)
  BY <1>1 DEF Going, Evolution
<1>3. p.at \notin {"none", "gone"} =>
        /\ p.stop
        /\ p.at \in Leaving \cup {"about"} \/ r = "server"
  BY DEF Cleaning, Alive, At
<1> HIDE DEF p, n
<1>4. p.at \in {"none", "gone"} => n = p
  BY <1>2 DEF Evolves
<1>5. p.at \notin {"none", "gone"} =>
        n.stop /\ (p.at \in Settled => n.at \in Settled)
  <2>1. p.stop => n.stop
    BY <1>2 DEF Evolves
  <2>2. p.at \in Settled => n.at \in Settled
    BY <1>2 DEF Evolves
  <2> QED  BY <1>3, <2>1, <2>2
<1>6. n.at \notin {"none", "gone"}
  BY DEF n
<1>7. Settled = Leaving \cup {"about", "gone"}
  BY DEF Settled, Leaving
<1>8. n.stop /\ (n.at \in Leaving \cup {"about"} \/ r = "server")
  BY <1>3, <1>4, <1>5, <1>6, <1>7
<1> QED  BY <1>8 DEF n

\* What an old program is, once the rest after the clean-up is over.
Retired(r, a) ==
  /\ r # "server" /\ prog[r][a].stop /\ At(r, a) \in Leaving /\ ~Served(r)

\* Once the clean-up is over, a program of an earlier attempt that lives has
\* been told to stop and is on its way out.
LEMMA OldStays ==
  ASSUME Types, Sound, Course, Going, Reached(3), OldStop,
         NEW r \in Roles, NEW a \in Attempts, a # attempt, Alive(r, a)'
  PROVE  Retired(r, a)' /\ Retired(r, a) /\ Alive(r, a)
<1> DEFINE p == prog[r][a]  n == prog'[r][a]
<1>0. attempt \in Attempts /\ attempt' = attempt
  BY AttemptIn DEF Reached, Going
<1>1. Evolves(r, p, n)
  BY DEF Going, Evolution, Started
<1>2. n.at \notin {"none", "gone"}
  BY DEF Alive, At
<1> HIDE DEF p, n
<1>3. p.at \notin {"none", "gone"}
  BY <1>1, <1>2 DEF Evolves
<1>4. Alive(r, a)
  BY <1>3 DEF Alive, At, p
<1>5. Retired(r, a)
  BY <1>4 DEF OldStop, Retired
<1>6. p.stop /\ p.at \in Leaving /\ r # "server"
  BY <1>5 DEF Retired, At, p
<1>7. n.stop /\ n.at \in Leaving
  BY <1>1, <1>2, <1>6 DEF Evolves
<1>8. ~Served(r)'
  <2>1. Held(r, a)
    BY <1>6 DEF Held, At, HeldAt, Leaving, p
  <2>2. ~Held(r, attempt) /\ ~prog[r][attempt].logged
    BY <1>5 DEF Retired, Served
  <2>3. prog'[r][attempt].at \notin HeldAt(r)
    BY <1>0, <2>1, <2>2 DEF Going, Newcomers, Held, At
  <2>4. ~prog'[r][attempt].logged
    <3>1. CASE Started(r, attempt)
      BY <3>1 DEF Started, NoProgram
    <3>2. CASE Evolves(r, prog[r][attempt], prog'[r][attempt])
      <4> DEFINE q == prog[r][attempt]  m == prog'[r][attempt]
      <4>1. m.logged /\ ~q.logged => m.at = "summary"
        BY <1>6, <3>2 DEF Evolves
      <4>2. "summary" \in HeldAt(r)
        BY <1>6 DEF HeldAt
      <4> QED  BY <2>2, <2>3, <4>1, <4>2
    <3> QED  BY <1>0, <3>1, <3>2 DEF Going, Evolution
  <2> QED  BY <1>0, <2>3, <2>4 DEF Served, Held, At
<1> QED  BY <1>4, <1>5, <1>6, <1>7, <1>8 DEF Retired, At, n

\* A program told to stop that waits for a packet that does not come.
LEMMA OldKept ==
  ASSUME Types, Sound, Course, Going, OldStop, Reached(3),
         \A r \in Tunnel, a \in Attempts :
           ~MayFail("receive") /\ generator = "off" /\ runner.in = "try"
           /\ a # attempt /\ At(r, a) = "wait" => prog'[r][a].at = "wait"
  PROVE  OldStop'
<1> SUFFICES ASSUME NEW r \in Roles, NEW a \in Attempts, a # attempt,
                    Alive(r, a)'
             PROVE  /\ Retired(r, a)'
                    /\ (~MayFail("receive"))' /\ generator' = "off"
                       /\ runner'.in = "try" => prog'[r][a].at = "wait"
  BY DEF OldStop, Retired, Going, At
<1>1. /\ Retired(r, a)' /\ Retired(r, a) /\ Alive(r, a)
      /\ MayFail("receive")' = MayFail("receive")
  BY OldStays DEF Going, MayFail
<1>2. generator' = "off" /\ runner'.in = "try" =>
        generator = "off" /\ runner.in = "try"
  BY DEF Going, Where, Control, Onwards, Idle, TryAt
<1>3. r \in Tunnel
  BY <1>1 DEF Retired, Roles, Tunnel
<1>4. ~MayFail("receive") /\ generator = "off" /\ runner.in = "try"
        => At(r, a) = "wait"
  BY <1>1 DEF OldStop
<1> QED  BY <1>1, <1>2, <1>3, <1>4

\* A new attempt has not passed its clean-up.
LEMMA OldStopFresh ==
  ASSUME Fresh
  PROVE  OldStop'
  BY DEF Fresh, OldStop, Reached

\* How the n-th place of the body is reached.
LEMMA ReachedFrom ==
  ASSUME Types, Course, Going, NEW n \in Nat, 2 <= n, n <= TrafficPlace,
         Reached(n)', ~Reached(n)
  PROVE  TryAt(n - 1) /\ Control /\ runner'.in = "try"
<1>1. /\ generator = "off" /\ ~(runner.in = "try" /\ runner.at >= n)
  BY DEF Reached
<1>2. Numbers /\ Somewhere
  BY NumbersAre DEF Types
<1>3. generator' = "off"
  BY <1>1, <1>2 DEF Going, Where, Control, TryAt, Numbers
<1>4. runner'.in = "try" /\ runner'.at >= n
  BY <1>3 DEF Reached
<1>5. runner' # runner
  BY <1>1, <1>4
<1>6. Control /\ Onwards
  BY <1>3, <1>4, <1>5 DEF Going, Where, Control, Idle
<1> QED  BY <1>1, <1>2, <1>4, <1>6 DEF Onwards, TryAt, Somewhere, Numbers, Idle

\* The rest after the pkill ends with every earlier program on its way out.
LEMMA OldStopRunner ==
  ASSUME Types, Sound, Course, Cleaning, OldStop, RunnerFacts
  PROVE  OldStop'
<1>0. Going /\ Numbers /\ attempt' = attempt /\ plan' = plan
  BY RunnerGoing, NumbersAre DEF Going
<1>1. CASE ~Reached(3)'
  BY <1>1 DEF OldStop
<1>2. CASE Reached(3)
  <2>1. ASSUME NEW r \in Tunnel, NEW a \in Attempts, generator = "off",
               runner.in = "try", a # attempt
        PROVE  prog'[r][a] = prog[r][a]
    <3>1. runner.at >= 3 /\ ~(runner.at > TrafficPlace)
      BY <1>2, <2>1 DEF Reached, Course, TryPast
    <3>2. runner.at \in Nat
      BY <2>1, <1>0 DEF Types, Somewhere, Idle, Numbers
    <3>3. runner.at > 1 /\ runner.at < 12 + M
      BY <1>0, <3>1, <3>2 DEF Numbers
    <3> QED  BY <2>1, <3>3 DEF RunnerFacts, LeftAlone, Started, Tunnel, Roles
  <2> QED  BY <1>0, <1>2, <2>1, OldKept DEF At
<1>3. CASE Reached(3)' /\ ~Reached(3)
  <2>1. TryAt(2)
    <3>1. 2 <= 3 /\ 3 <= TrafficPlace /\ 3 \in Nat
      BY <1>0 DEF Numbers
    <3>2. TryAt(3 - 1)
      BY <1>0, <1>3, <3>1, ReachedFrom
    <3> QED  BY <3>2
  <2> SUFFICES ASSUME NEW r \in Roles, NEW a \in Attempts, a # attempt,
                      Alive(r, a)'
               PROVE  Retired(r, a)' /\ prog'[r][a].at = "wait"
    BY <1>0 DEF OldStop, Retired, At
  <2>2. \A s \in Roles, b \in Attempts : prog'[s][b] = prog[s][b]
    BY <1>0, <2>1 DEF RunnerFacts, LeftAlone, Started, TryAt, Numbers, Roles
  <2>3. Alive(r, a) /\ AtRest(r, a)
    BY <2>1, <2>2 DEF Alive, At, RunnerFacts, Rests
  <2>4. /\ prog[r][a].stop
        /\ At(r, a) \in Leaving \cup {"about"} \/ r = "server"
    BY <2>1, <2>3 DEF Cleaning
  <2>5. At(r, a) # "shell"
    BY <2>4 DEF Leaving, Sound, Programs1, Seen
  <2>6. Stalled(r, a)
    BY <2>3, <2>5 DEF AtRest
  <2>7. At(r, a) = "wait" /\ r # "server"
    BY <2>4, <2>6 DEF Stalled
  <2>8. attempt \in Attempts
    BY <2>1, AttemptIn DEF TryAt
  <2>9. prog[r][attempt] = NoProgram
    <3>1. At(r, attempt) = "none"
      BY <1>0, <2>1 DEF Course, TryAt, Numbers, Roles
    <3> QED  BY <2>8, <3>1 DEF Sound, Programs1
  <2>10. prog'[r][attempt] = NoProgram
    BY <2>2, <2>8, <2>9
  <2>11. ~Served(r)'
    BY <1>0, <2>10 DEF Served, Held, At, NoProgram, HeldAt
  <2> QED  BY <2>2, <2>4, <2>7, <2>11 DEF Retired, At, Leaving
<1> QED  BY <1>1, <1>2, <1>3

\* No step of a program brings an earlier one back.
LEMMA OldStopProgram ==
  ASSUME Types, Sound, Course, OldStop, NEW r \in Roles, NEW a \in Attempts,
         ProgramMoves(r, a)
  PROVE  OldStop'
<1>0. Going /\ runner' = runner /\ generator' = generator
  BY ProgramGoing DEF ProgramMoves
<1>1. CASE ~Reached(3)'
  BY <1>1 DEF OldStop
<1>2. CASE Reached(3)'
  <2>1. Reached(3)
    BY <1>0, <1>2 DEF Reached
  <2>2. generator = "off" => queue = 0 /\ wire = 0
    <3>1. /\ queue \in Nat /\ wire \in Nat /\ out \in Nat
          /\ queue + wire + out <= sent
          /\ generator = "off" => sent = 0
      BY DEF Types, Course
    <3> QED  BY <3>1
  <2>3. ASSUME NEW s \in Tunnel, NEW b \in Attempts, ~MayFail("receive"),
               generator = "off", At(s, b) = "wait"
        PROVE  prog'[s][b].at = "wait"
    <3>1. CASE s = r /\ b = a
      <4>1. Unprompted(r, a) /\ r # "server"
        BY <2>3, <3>1 DEF ProgramMoves, StepFacts, Tunnel
      <4> QED  BY <2>2, <2>3, <3>1, <4>1 DEF Unprompted, At
    <3>2. CASE s # r \/ b # a
      BY <2>3, <3>2 DEF ProgramMoves, StepFacts, OthersSame, Tunnel, Roles, At
    <3> QED  BY <3>1, <3>2
  <2> QED  BY <1>0, <2>1, <2>3, OldKept
<1> QED  BY <1>1, <1>2

\* Nor does a step that touches no program.
LEMMA OldStopQuiet ==
  ASSUME Types, Sound, Course, OldStop, Quiet
  PROVE  OldStop'
<1>0. Going /\ prog' = prog
  BY QuietGoing DEF Quiet
<1>1. CASE ~Reached(3)'
  BY <1>1 DEF OldStop
<1>2. CASE Reached(3)'
  <2>1. Reached(3)
    <3>1. generator' # "off" => generator # "off"
      BY DEF Quiet, Dies, Sends, Ends, Watches
    <3>2. runner'.in = "try" => runner' = runner
      BY DEF Quiet, Dies, Sends, Ends, Watches, Idle
    <3> QED  BY <1>2, <3>1, <3>2 DEF Reached
  <2> QED  BY <1>0, <2>1, OldKept DEF At
<1> QED  BY <1>1, <1>2

-----------------------------------------------------------------------------
(* Named: the pid files *)

\* The runner's places only pass on.
LEMMA ReachedQuiet ==
  ASSUME Quiet, NEW n, Reached(n)'
  PROVE  Reached(n)
<1>1. generator' # "off" => generator # "off"
  BY DEF Quiet, Dies, Sends, Ends, Watches
<1>2. runner'.in = "try" => runner' = runner
  BY DEF Quiet, Dies, Sends, Ends, Watches, Idle
<1> QED  BY <1>1, <1>2 DEF Reached

\* A step of a program moves the runner nowhere.
LEMMA ReachedProgram ==
  ASSUME NEW r, NEW a, ProgramMoves(r, a), NEW n
  PROVE  Reached(n)' <=> Reached(n)
  BY DEF ProgramMoves, Reached

\* Reached(n) when an earlier place is.
LEMMA ReachedEarlier ==
  ASSUME Types, NEW n \in Nat, NEW m \in Nat, m <= n, Reached(n)
  PROVE  Reached(m)
<1>1. runner.in = "try" => runner.at \in Nat
  BY NumbersAre DEF Types, Somewhere, Idle, Numbers
<1> QED  BY <1>1 DEF Reached

\* The program of the attempt, once it is there.
LEMMA Continues ==
  ASSUME Types, Course, Going, NEW r \in Roles, attempt \in Attempts,
         At(r, attempt) # "none"
  PROVE  Evolves(r, prog[r][attempt], prog'[r][attempt])
<1>1. ~Started(r, attempt)
  <2>1. TryAt(StartPlace(r)) => At(r, attempt) = "none"
    BY NumbersAre DEF Course, TryAt, Numbers, Roles
  <2> QED  BY <2>1 DEF Started
<1> QED  BY <1>1 DEF Going, Evolution

NamedOne(r) ==
  /\ Reached(4) => /\ pidFile[r] \in {0, attempt}
                   /\ pidFile[r] = attempt =>
                        At(r, attempt) \notin {"none", "shell"}
  /\ Reached(AwaitPlace(r) + 1) =>
       pidFile[r] = attempt /\ At(r, attempt) \in Settled

\* Named, one program at a time.
LEMMA NamedIs == Named <=> \A r \in Tunnel : NamedOne(r)
  BY DEF Named, NamedOne

\* A step that leaves the pid file alone.
LEMMA NamedKept ==
  ASSUME Types, Sound, Course, Going, NEW r \in Tunnel, NamedOne(r),
         pidFile'[r] = pidFile[r], NEW n \in Nat, Reached(n)
  PROVE  /\ n >= 4 => /\ pidFile'[r] \in {0, attempt}
                      /\ pidFile'[r] = attempt =>
                           prog'[r][attempt].at \notin {"none", "shell"}
         /\ n = AwaitPlace(r) + 1 =>
              pidFile'[r] = attempt /\ prog'[r][attempt].at \in Settled
<1>1. /\ n >= 4 => Reached(4)
      /\ AwaitPlace(r) \in Nat /\ r \in Roles
      /\ n >= 4 => attempt \in Attempts
      /\ n = AwaitPlace(r) + 1 => attempt \in Attempts
  BY ReachedEarlier, NumbersAre, AttemptIn
     DEF Numbers, Tunnel, Roles, Reached
<1>2. ASSUME attempt \in Attempts, At(r, attempt) # "none"
      PROVE  Evolves(r, prog[r][attempt], prog'[r][attempt])
  BY <1>1, <1>2, Continues
<1> DEFINE p == prog[r][attempt]  q == prog'[r][attempt]
<1>3. ASSUME n >= 4, pidFile[r] = attempt
      PROVE  q.at \notin {"none", "shell"}
  <2>1. p.at \notin {"none", "shell"}
    BY <1>1, <1>3 DEF NamedOne, At
  <2>2. Evolves(r, p, q)
    BY <1>1, <1>2, <1>3, <2>1 DEF At
  <2> HIDE DEF p, q
  <2> QED  BY <2>1, <2>2 DEF Evolves
<1>4. ASSUME n = AwaitPlace(r) + 1
      PROVE  pidFile[r] = attempt /\ q.at \in Settled
  <2>1. pidFile[r] = attempt /\ p.at \in Settled
    BY <1>1, <1>4 DEF NamedOne, At
  <2>2. Evolves(r, p, q)
    BY <1>1, <1>2, <1>4, <2>1 DEF At, Settled
  <2> HIDE DEF p, q
  <2> QED  BY <2>1, <2>2 DEF Evolves
<1> QED  BY <1>1, <1>3, <1>4 DEF NamedOne

\* A new attempt has reached no place yet.
LEMMA NamedFresh ==
  ASSUME Types, Fresh
  PROVE  Named'
<1>1. \A r \in Tunnel : AwaitPlace(r)' \in Nat /\ AwaitPlace(r)' > 4
  BY NumbersAre, PlacesSame DEF Fresh, Numbers, Tunnel
<1> QED  BY <1>1 DEF Fresh, Named, Reached

\* The rm -f leaves no pid file, and the wait for a program ends with its own
\* pid in its file.
LEMMA NamedRunner ==
  ASSUME Types, Sound, Course, Named, RunnerFacts
  PROVE  Named'
<1> SUFFICES ASSUME NEW r \in Tunnel
             PROVE  NamedOne(r)'
  BY DEF Named, NamedOne
<1>0. /\ Going /\ Numbers /\ attempt' = attempt /\ plan' = plan
      /\ AwaitPlace(r)' = AwaitPlace(r) /\ AwaitPlace(r) \in Nat
      /\ AwaitPlace(r) >= 8 /\ AwaitPlace(r) + 1 <= TrafficPlace
      /\ NamedOne(r) /\ r \in Roles
  BY RunnerGoing, NumbersAre, PlacesSame, NamedIs
     DEF Going, Numbers, Tunnel, Roles
<1>1. Reached(4) => pidFile' = pidFile
  BY <1>0 DEF RunnerFacts, Files, Reached, TryAt, Course, Numbers
<1>2. ASSUME Reached(4)'
      PROVE  /\ pidFile'[r] \in {0, attempt}
             /\ pidFile'[r] = attempt =>
                  prog'[r][attempt].at \notin {"none", "shell"}
  <2>1. CASE Reached(4)
    BY <1>0, <1>1, <2>1, NamedKept
  <2>2. CASE ~Reached(4)
    <3>1. TryAt(4 - 1) /\ runner'.in = "try"
      BY <1>0, <1>2, <2>2, ReachedFrom DEF Numbers
    <3>2. TryAt(3) /\ attempt # 0
      BY <3>1 DEF Course, TryAt, Idle
    <3>3. pidFile'[r] = 0
      BY <3>1, <3>2 DEF RunnerFacts, Files, Types, Tunnel
    <3> QED  BY <3>2, <3>3
  <2> QED  BY <2>1, <2>2
<1>3. ASSUME Reached(AwaitPlace(r) + 1)'
      PROVE  pidFile'[r] = attempt /\ prog'[r][attempt].at \in Settled
  <2>1. CASE Reached(AwaitPlace(r) + 1)
    <3>1. Reached(4)
      BY <1>0, <2>1, ReachedEarlier
    <3> QED  BY <1>0, <1>1, <2>1, <3>1, NamedKept
  <2>2. CASE ~Reached(AwaitPlace(r) + 1)
    <3>0. PICK k \in Nat : k = AwaitPlace(r) + 1
      BY <1>0
    <3>1. k >= 2 /\ k <= TrafficPlace /\ k - 1 = AwaitPlace(r)
      BY <1>0, <3>0
    <3>2. Reached(k)' /\ ~Reached(k)
      BY <1>0, <1>3, <2>2, <3>0 DEF Reached
    <3>3. TryAt(AwaitPlace(r)) /\ runner'.in = "try"
      BY <1>0, <3>1, <3>2, ReachedFrom
    <3>4. pidFile[r] # 0 /\ AtRest(r, attempt)
      BY <3>3 DEF RunnerFacts, Rests
    <3>5. Reached(4) /\ attempt \in Attempts
      BY <1>0, <3>3, AttemptIn DEF Reached, TryAt
    <3>6. pidFile[r] = attempt /\ At(r, attempt) \notin {"none", "shell"}
      BY <1>0, <3>4, <3>5 DEF NamedOne
    <3>7. At(r, attempt) \in Settled
      BY <3>4, <3>6 DEF AtRest, Alive, Stalled, InLoop, Settled
    <3>8. prog'[r][attempt] = prog[r][attempt]
      <4>1. runner.in = "try" /\ runner.at > 1 /\ runner.at < 12 + M
        BY <1>0, <3>3 DEF TryAt, Numbers, Tunnel
      <4>2. ~TryAt(StartPlace(r))
        BY <1>0, <3>3 DEF TryAt, Numbers, Tunnel
      <4> QED  BY <1>0, <3>5, <4>1, <4>2 DEF RunnerFacts, LeftAlone, Started
    <3> QED  BY <1>1, <3>5, <3>6, <3>7, <3>8 DEF At
  <2> QED  BY <2>1, <2>2
<1> QED  BY <1>0, <1>2, <1>3 DEF NamedOne, At

\* Only a program of this attempt writes a pid file after the rm -f: one of
\* an earlier attempt is past writing it.
LEMMA NamedProgram ==
  ASSUME Types, Sound, Course, OldStop, Named,
         NEW r \in Roles, NEW a \in Attempts, ProgramMoves(r, a)
  PROVE  Named'
<1> SUFFICES ASSUME NEW s \in Tunnel
             PROVE  NamedOne(s)'
  BY DEF Named, NamedOne
<1>0. /\ Going /\ attempt' = attempt /\ plan' = plan
      /\ AwaitPlace(s)' = AwaitPlace(s) /\ AwaitPlace(s) \in Nat
      /\ AwaitPlace(s) >= 8 /\ NamedOne(s) /\ s \in Roles
  BY ProgramGoing, NumbersAre, PlacesSame, NamedIs
     DEF ProgramMoves, Numbers, Tunnel, Roles
<1>1. \A n : Reached(n)' <=> Reached(n)
  BY ReachedProgram
<1>2. CASE pidFile'[s] = pidFile[s]
  <2>1. Reached(4) => /\ pidFile'[s] \in {0, attempt}
                      /\ pidFile'[s] = attempt =>
                           prog'[s][attempt].at \notin {"none", "shell"}
    BY <1>0, <1>2, NamedKept
  <2>2. Reached(AwaitPlace(s) + 1) =>
          pidFile'[s] = attempt /\ prog'[s][attempt].at \in Settled
    BY <1>0, <1>2, NamedKept
  <2> QED  BY <1>0, <1>1, <2>1, <2>2 DEF NamedOne, At
<1>3. CASE /\ s = r /\ prog[r][a].at = "shell"
           /\ prog'[r][a].at = "options" /\ pidFile'[s] = a
  <2>1. Reached(4) => a = attempt
    <3>1. SUFFICES ASSUME Reached(4), a # attempt
                   PROVE  FALSE
      OBVIOUS
    <3>2. Reached(3)
      BY <3>1, ReachedEarlier
    <3> QED  BY <1>3, <3>1, <3>2 DEF OldStop, Alive, At, Leaving
  <2>2. ~Reached(AwaitPlace(s) + 1)
    <3>1. SUFFICES ASSUME Reached(AwaitPlace(s) + 1)
                   PROVE  FALSE
      OBVIOUS
    <3>2. Reached(4)
      BY <1>0, <3>1, ReachedEarlier
    <3> QED  BY <1>0, <1>3, <2>1, <3>1, <3>2 DEF NamedOne, At, Settled
  <2> QED  BY <1>0, <1>1, <1>3, <2>1, <2>2 DEF NamedOne, At
<1>4. \/ pidFile'[s] = pidFile[s]
      \/ /\ s = r /\ prog[r][a].at = "shell"
         /\ prog'[r][a].at = "options" /\ pidFile'[s] = a
  BY DEF ProgramMoves, StepFacts, WritesPid, Types, Tunnel
<1> QED  BY <1>2, <1>3, <1>4

\* A quiet step writes no pid file.
LEMMA NamedQuiet ==
  ASSUME Types, Sound, Course, Named, Quiet
  PROVE  Named'
<1> SUFFICES ASSUME NEW r \in Tunnel
             PROVE  NamedOne(r)'
  BY DEF Named, NamedOne
<1>0. /\ attempt' = attempt /\ plan' = plan /\ prog' = prog
      /\ AwaitPlace(r)' = AwaitPlace(r) /\ pidFile'[r] = pidFile[r]
      /\ NamedOne(r)
  BY PlacesSame, NamedIs DEF Quiet
<1>1. \A n : Reached(n)' => Reached(n)
  BY ReachedQuiet
<1> QED  BY <1>0, <1>1 DEF NamedOne, At

-----------------------------------------------------------------------------
(* Stopping: how the programs of the attempt are brought to an end *)

Rested == runner = Idle /\ generator = "timed" /\ kills = 0

\* Of each program what Stopping says of it.
StopOne(r) ==
  /\ TryPast(SignalPlace(r)) => Told(r)
  /\ TryPast(CollectPlace(r)) \/ Over(0) => Told(r) /\ At(r, attempt) # "about"
  /\ Over(FinalSignal(r)) => Told(r) /\ At(r, attempt) \notin {"about", "wait"}
EndOne(r) ==
  Over(FinalCollect(r)) \/ Rested => Dead(r)

\* Stopping, one program at a time.
LEMMA StoppingIs ==
  Stopping <=> /\ \A r \in Tunnel : StopOne(r)
               /\ Over(FinalSignal("server")) => Told("server")
               /\ \A r \in Roles : EndOne(r)
  BY DEF Stopping, StopOne, EndOne, Rested

\* Past the signals everything has been started, and every pid file names
\* the attempt.
LEMMA LatePlaces ==
  ASSUME Types, Course, NEW r \in Roles,
         \/ TryPast(SignalPlace(r)) \/ TryPast(CollectPlace(r))
         \/ \E n \in Nat : Over(n)
         \/ Rested \/ TryAt(SignalPlace(r)) \/ TryAt(CollectPlace(r))
         \/ (runner.in = "finally" /\ generator = "timed")
  PROVE  /\ ~TryAt(StartPlace(r)) /\ generator = "timed"
         /\ attempt \in Attempts
         /\ r \in Tunnel => Reached(AwaitPlace(r) + 1)
<1>1. Numbers /\ (r \in Tunnel \/ r = "server") /\ Somewhere
  BY NumbersAre DEF Roles, Tunnel, Types
<1>2. CASE runner.in = "try"
  <2>1. /\ runner.at \in Nat /\ ~(runner = Idle)
        /\ \/ TryPast(SignalPlace(r)) \/ TryPast(CollectPlace(r))
           \/ TryAt(SignalPlace(r)) \/ TryAt(CollectPlace(r))
    BY <1>1, <1>2 DEF Somewhere, Numbers, Over, Rested, Idle
  <2>2. SignalPlace("server") = 13 + M /\ CollectPlace("server") = 15 + 2 * M
    BY DEF SignalPlace, CollectPlace
  <2>3. runner.at > 11 + M
    BY <1>1, <2>1, <2>2 DEF Numbers, TryPast, TryAt, Tunnel
  <2>4. generator = "timed"
    BY <1>1, <1>2, <2>1, <2>3 DEF Course, TryPast, Numbers
  <2> QED  BY <1>1, <1>2, <2>1, <2>3, <2>4, AttemptIn
              DEF Reached, TryAt, Numbers, Tunnel
<1>3. CASE runner.in # "try"
  <2>1. generator = "timed" /\ ~TryAt(StartPlace(r))
    BY <1>3 DEF TryPast, TryAt, Over, Rested
  <2> QED  BY <2>1, AttemptIn DEF Reached
<1> QED  BY <1>2, <1>3

\* What becomes of a program told to stop.
LEMMA ToldKept ==
  ASSUME Types, Course, Going, NEW r \in Roles, attempt \in Attempts,
         ~TryAt(StartPlace(r))
  PROVE  /\ Told(r) => Told(r)'
         /\ Dead(r) => Dead(r)'
         /\ r \in Tunnel /\ Told(r) /\ At(r, attempt) \in Settled
              /\ At(r, attempt) # "about" =>
              /\ At(r, attempt)' # "about"
              /\ At(r, attempt) # "wait" => At(r, attempt)' # "wait"
<1> DEFINE p == prog[r][attempt]  n == prog'[r][attempt]
<1>1. Evolves(r, p, n) /\ attempt' = attempt
  BY DEF Going, Evolution, Started
<1> HIDE DEF p, n
<1>2. p.at \in {"none", "gone"} => n = p
  BY <1>1 DEF Evolves
<1>3. p.stop => n.stop
  BY <1>1 DEF Evolves
<1>4. ASSUME r \in Tunnel, p.stop, p.at \in Leaving
      PROVE  /\ n.at \in Leaving \cup {"gone"}
             /\ p.at # "wait" => n.at # "wait"
  BY <1>1, <1>4 DEF Evolves, Tunnel
<1>5. p.at = "gone" => n.at = "gone"
  BY <1>2
<1>6. ASSUME r \in Tunnel, Told(r), p.at \in Settled, p.at # "about"
      PROVE  /\ n.at # "about"
             /\ p.at # "wait" => n.at # "wait"
  <2>1. p.at = "gone" \/ (p.stop /\ p.at \in Leaving)
    BY <1>6 DEF Told, Dead, Alive, At, Settled, Leaving, p
  <2> QED  BY <1>4, <1>5, <1>6, <2>1 DEF Leaving
<1> QED  BY <1>1, <1>2, <1>3, <1>6 DEF Told, Dead, Alive, At, p, n

\* What is known of the programs that were told to stop stays true.
LEMMA StoppingKept ==
  ASSUME Types, Sound, Course, Named, Stopping, Going
  PROVE  /\ \A r \in Tunnel :
              /\ TryPast(SignalPlace(r)) => Told(r)'
              /\ TryPast(CollectPlace(r)) \/ Over(0) =>
                   Told(r)' /\ At(r, attempt)' # "about"
              /\ Over(FinalSignal(r)) =>
                   Told(r)' /\ At(r, attempt)' \notin {"about", "wait"}
         /\ Over(FinalSignal("server")) => Told("server")'
         /\ \A r \in Roles : Over(FinalCollect(r)) \/ Rested => Dead(r)'
<1>1. Numbers /\ Tunnel \subseteq Roles /\ "server" \in Roles
      /\ attempt' = attempt
  BY NumbersAre DEF Tunnel, Roles, Going
<1>2. /\ \A r \in Roles : FinalCollect(r) \in Nat
      /\ \A r \in Roles : FinalSignal(r) \in Nat
  BY <1>1 DEF Numbers, Roles
<1>3. ASSUME NEW r \in Tunnel
      PROVE  /\ TryPast(SignalPlace(r)) => Told(r)'
             /\ TryPast(CollectPlace(r)) \/ Over(0) =>
                  Told(r)' /\ At(r, attempt)' # "about"
             /\ Over(FinalSignal(r)) =>
                  Told(r)' /\ At(r, attempt)' \notin {"about", "wait"}
  <2>0. StopOne(r) /\ r \in Roles /\ NamedOne(r)
    BY <1>1, StoppingIs, NamedIs
  <2>1. ASSUME \/ TryPast(SignalPlace(r)) \/ TryPast(CollectPlace(r))
               \/ Over(0) \/ Over(FinalSignal(r))
        PROVE  /\ ~TryAt(StartPlace(r)) /\ attempt \in Attempts
               /\ At(r, attempt) \in Settled
    <3>1. /\ ~TryAt(StartPlace(r)) /\ attempt \in Attempts
          /\ Reached(AwaitPlace(r) + 1)
      BY <1>2, <2>0, <2>1, LatePlaces
    <3> QED  BY <2>0, <3>1 DEF NamedOne
  <2>2. TryPast(SignalPlace(r)) => Told(r)'
    BY <2>0, <2>1, ToldKept DEF StopOne
  <2>3. TryPast(CollectPlace(r)) \/ Over(0) =>
          Told(r)' /\ At(r, attempt)' # "about"
    BY <2>0, <2>1, ToldKept DEF StopOne
  <2>4. Over(FinalSignal(r)) =>
          Told(r)' /\ At(r, attempt)' \notin {"about", "wait"}
    BY <2>0, <2>1, ToldKept DEF StopOne
  <2> QED  BY <2>2, <2>3, <2>4
<1>4. Over(FinalSignal("server")) => Told("server")'
  BY <1>1, <1>2, StoppingIs, LatePlaces, ToldKept
<1>5. ASSUME NEW r \in Roles, Over(FinalCollect(r)) \/ Rested
      PROVE  Dead(r)'
  BY <1>2, <1>5, StoppingIs, LatePlaces, ToldKept DEF EndOne
<1> QED  BY <1>3, <1>4, <1>5

\* A new attempt has signalled nobody yet.
LEMMA StoppingFresh ==
  ASSUME Fresh
  PROVE  Stopping'
<1>1. /\ runner'.in = "try" /\ runner'.at = 1 /\ generator' = "off"
  BY DEF Fresh
<1>2. Numbers /\ plan' = plan
  BY NumbersAre DEF Fresh
<1>3. \A r \in Tunnel : /\ SignalPlace(r)' \in Nat /\ SignalPlace(r)' > 1
                        /\ CollectPlace(r)' \in Nat /\ CollectPlace(r)' > 1
  BY <1>2, PlacesSame DEF Numbers, Tunnel
<1>4. \A r \in Tunnel : ~TryPast(SignalPlace(r))' /\ ~TryPast(CollectPlace(r))'
  <2>1. \A n \in Nat : n > 1 => ~(1 > n)
    OBVIOUS
  <2> QED  BY <1>1, <1>3, <2>1 DEF TryPast
<1>5. \A r : ~Over(FinalSignal(r))' /\ ~Over(FinalCollect(r))' /\ ~Over(0)'
  BY <1>1 DEF Over
<1>6. ~(runner' = Idle /\ generator' = "timed" /\ kills' = 0)
  BY <1>1
<1> QED  BY <1>4, <1>5, <1>6 DEF Stopping

\* Steps of others than the runner.
LEMMA StoppingOthers ==
  ASSUME Types, Sound, Course, Named, Stopping, Going,
         \/ runner' = runner /\ kills' = kills
            /\ (generator' = generator \/ generator = "on")
         \/ runner' = Idle /\ kills' = kills + 1 /\ generator' = generator
  PROVE  Stopping'
<1>1. /\ plan' = plan /\ attempt' = attempt /\ kills \in Nat
      /\ \A r : /\ SignalPlace(r)' = SignalPlace(r)
                /\ CollectPlace(r)' = CollectPlace(r)
                /\ FinalSignal(r)' = FinalSignal(r)
                /\ FinalCollect(r)' = FinalCollect(r)
  BY PlacesSame DEF Going, Types
<1>2. Idle.in # "try" /\ Idle.in # "finally"
  BY DEF Idle
<1>3. /\ runner'.in = "try" => runner' = runner
      /\ generator' = "timed" /\ runner'.in = "finally" =>
           generator = "timed" /\ runner' = runner
      /\ runner' = Idle /\ generator' = "timed" /\ kills' = 0 => Rested
  BY <1>1, <1>2 DEF Course, TryAt, Rested
<1>4. \A r : /\ TryPast(SignalPlace(r))' => TryPast(SignalPlace(r))
             /\ TryPast(CollectPlace(r))' => TryPast(CollectPlace(r))
             /\ Over(FinalSignal(r))' => Over(FinalSignal(r))
             /\ Over(FinalCollect(r))' => Over(FinalCollect(r))
             /\ Over(0)' => Over(0)
  BY <1>1, <1>3 DEF TryPast, Over
<1> QED  BY <1>3, <1>4, StoppingKept DEF Stopping

\* So does a step of a program.
LEMMA StoppingProgram ==
  ASSUME Types, Sound, Course, Named, Stopping,
         NEW r \in Roles, NEW a \in Attempts, ProgramMoves(r, a)
  PROVE  Stopping'
  BY ProgramGoing, StoppingOthers DEF ProgramMoves

\* And a quiet one.
LEMMA StoppingQuiet ==
  ASSUME Types, Sound, Course, Named, Stopping, Quiet
  PROVE  Stopping'
  BY QuietGoing, StoppingOthers DEF Quiet, Dies, Sends, Ends, Watches

\* How the runner gets past a place.
LEMMA PastFrom ==
  ASSUME Types, Course, Control, plan' = plan
  PROVE  /\ \A n \in Nat : n > 0 =>
              /\ TryPast(n)' /\ ~TryPast(n) => TryAt(n)
              /\ Over(n)' /\ ~Over(n) => FinallyAt(n) /\ generator = "timed"
         /\ Over(0)' /\ ~Over(0) => TryAt(18 + 3 * M) /\ generator = "timed"
         /\ Rested' => FinallyAt(6 + 2 * M) /\ generator = "timed"
<1>1. Numbers /\ Somewhere /\ Idle.in # "try" /\ Idle.in # "finally"
  BY NumbersAre DEF Types, Idle
<1>2. /\ runner.in = "try" => runner.at \in Nat /\ runner # Idle
      /\ runner.in = "finally" => runner.at \in Nat /\ runner # Idle
  BY <1>1 DEF Somewhere, Numbers
<1>3. CASE \/ Onwards /\ ~TryAt(TrafficPlace) /\ generator' = generator
         \/ /\ Onwards /\ TryAt(TrafficPlace)
            /\ generator = "done" /\ generator' = "timed"
  <2>0. TryAt(TrafficPlace) => runner'.in = "try"
    BY <1>1, <1>3 DEF Onwards, TryAt, Numbers
  <2>1. ASSUME NEW n \in Nat, n > 0
        PROVE  /\ TryPast(n)' /\ ~TryPast(n) => TryAt(n)
               /\ Over(n)' /\ ~Over(n) => FinallyAt(n) /\ generator = "timed"
    BY <1>1, <1>2, <1>3, <2>1 DEF Onwards, TryPast, Over, TryAt, FinallyAt
  <2>2. Over(0)' /\ ~Over(0) => TryAt(18 + 3 * M) /\ generator = "timed"
    <3>1. SUFFICES ASSUME runner'.in = "finally", generator' = "timed",
                          ~Over(0)
                   PROVE  TryAt(18 + 3 * M) /\ generator = "timed"
      BY DEF Over
    <3>2. runner.in = "finally" => runner.at > 0
      BY <1>1 DEF Somewhere, Numbers
    <3>3. generator = "timed"
      BY <1>3, <2>0, <3>1
    <3> QED  BY <1>1, <1>2, <1>3, <3>1, <3>2, <3>3 DEF Onwards, Over, TryAt
  <2>3. Rested' => FinallyAt(6 + 2 * M) /\ generator = "timed"
    <3>1. SUFFICES ASSUME runner' = Idle, generator' = "timed"
                   PROVE  FinallyAt(6 + 2 * M) /\ generator = "timed"
      BY DEF Rested
    <3>2. generator = "timed"
      BY <1>1, <1>3, <2>0, <3>1
    <3> QED  BY <1>1, <1>3, <3>1, <3>2 DEF Onwards, FinallyAt
  <2> QED  BY <2>1, <2>2, <2>3
<1>4. CASE runner' = runner /\ TryAt(TrafficPlace) /\ generator' = "on"
  BY <1>1, <1>2, <1>4 DEF TryPast, Over, TryAt, Rested
<1>5. CASE /\ runner' = [in |-> "finally", at |-> 1]
           /\ generator' = generator /\ Raises
  <2>1. runner'.in = "finally" /\ runner'.at = 1 /\ runner' # Idle
    BY <1>1, <1>5
  <2>2. generator = "timed" => TryAt(18 + 3 * M)
    <3>1. runner.in = "try" /\ runner.at < TrafficPlace => generator = "off"
      BY DEF Course
    <3> QED  BY <1>5, <3>1 DEF Raises
  <2> QED  BY <1>5, <2>1, <2>2 DEF TryPast, Over, Rested
<1> QED  BY <1>3, <1>4, <1>5 DEF Control

\* The kill by pid file reaches this attempt's program, the wait for its end
\* lasts until it has left its loop, and the finally kills what is left.
LEMMA StoppingRunner ==
  ASSUME Types, Sound, Course, Named, Stopping, RunnerFacts
  PROVE  Stopping'
<1>1. /\ Numbers /\ Going /\ Control /\ Signals /\ Collects
      /\ plan' = plan /\ attempt' = attempt
      /\ Tunnel \subseteq Roles /\ "server" \in Roles
  BY NumbersAre, RunnerGoing DEF RunnerFacts, Going, Tunnel, Roles
<1>2. \A r : /\ SignalPlace(r)' = SignalPlace(r)
             /\ CollectPlace(r)' = CollectPlace(r)
             /\ FinalSignal(r)' = FinalSignal(r)
             /\ FinalCollect(r)' = FinalCollect(r)
  BY <1>1, PlacesSame
<1>3. /\ \A r \in Tunnel :
           /\ SignalPlace(r) \in Nat /\ SignalPlace(r) > 0
           /\ CollectPlace(r) \in Nat /\ CollectPlace(r) > 0
           /\ SignalPlace(r) < CollectPlace(r)
           /\ CollectPlace(r) < 18 + 3 * M
      /\ \A r \in Roles :
           /\ FinalSignal(r) \in Nat /\ FinalSignal(r) > 0
           /\ FinalCollect(r) \in Nat /\ FinalCollect(r) > 0
           /\ FinalSignal(r) < FinalCollect(r)
           /\ FinalCollect(r) <= 6 + 2 * M
  BY <1>1 DEF Numbers, Tunnel, Roles
<1>4. ASSUME NEW r \in Tunnel,
             \/ TryAt(SignalPlace(r))
             \/ FinallyAt(FinalSignal(r)) /\ generator = "timed"
      PROVE  Termed(r, prog[r][attempt], prog'[r][attempt])
             /\ attempt \in Attempts
  <2>1. attempt \in Attempts /\ Reached(AwaitPlace(r) + 1)
    BY <1>1, <1>4, LatePlaces DEF FinallyAt
  <2>2. pidFile[r] = attempt
    BY <2>1 DEF Named
  <2> QED  BY <1>1, <1>4, <2>1, <2>2 DEF Signals
<1>5. ASSUME NEW r \in Roles,
             Termed(r, prog[r][attempt], prog'[r][attempt])
      PROVE  /\ Told(r)'
             /\ r \in Tunnel /\ At(r, attempt) # "about" =>
                  At(r, attempt)' \notin {"about", "wait"}
  <2> DEFINE p == prog[r][attempt]  n == prog'[r][attempt]
  <2> HIDE DEF p, n
  <2>1. /\ p.at \in {"none", "gone"} => n = p
        /\ p.at \notin {"none", "gone"} =>
             \/ n.at = "gone" /\ p.at \in Early
             \/ n.stop /\ n.at \in (Leaving \ {"wait"}) \cup {"about"}
             \/ n.stop /\ r = "server" /\ n.at = "bind"
        /\ p.at # "about" => n.at # "about"
    BY <1>5 DEF Termed, p, n
  <2>2. n.at \in {"none", "gone"} \/ n.stop
    BY <2>1
  <2>3. r \in Tunnel /\ p.at # "about" => n.at \notin {"about", "wait"}
    BY <2>1 DEF Tunnel, Leaving
  <2> QED  BY <1>1, <2>2, <2>3 DEF Told, Dead, Alive, At, p, n
<1>6. ASSUME NEW r \in Tunnel
      PROVE  StopOne(r)'
  <2>0. r \in Roles /\ StopOne(r)
    BY <1>1, StoppingIs
  <2>1. TryPast(SignalPlace(r))' => Told(r)'
    <3>1. CASE TryPast(SignalPlace(r))
      BY <3>1, StoppingKept, <1>1
    <3>2. CASE TryAt(SignalPlace(r))
      BY <2>0, <3>2, <1>4, <1>5
    <3>3. TryPast(SignalPlace(r))' =>
            TryPast(SignalPlace(r)) \/ TryAt(SignalPlace(r))
      <4>1. PICK n \in Nat : n = SignalPlace(r)
        BY <1>3
      <4>2. TryPast(n)' => TryPast(n) \/ TryAt(n)
        BY <1>1, <1>3, <4>1, PastFrom
      <4> QED  BY <1>2, <4>1, <4>2 DEF TryPast
    <3> QED  BY <3>1, <3>2, <3>3
  <2>2. TryPast(CollectPlace(r))' => Told(r)' /\ At(r, attempt)' # "about"
    <3>1. CASE TryPast(CollectPlace(r))
      BY <3>1, StoppingKept, <1>1
    <3>2. CASE TryAt(CollectPlace(r))
      <4>1. attempt \in Attempts /\ Gathered(r)
        BY <1>1, <2>0, <3>2, LatePlaces DEF Collects
      <4>2. Told(r)
        BY <1>3, <2>0, <3>2 DEF StopOne, TryAt, TryPast
      <4>3. At(r, attempt) # "about"
        BY <4>1, <4>2 DEF Gathered, Told, Dead, Alive, AtRest, Stalled
      <4> QED  BY <1>1, <4>1, <4>2, <4>3 DEF Gathered, Told, Dead, Alive, At
    <3>3. TryPast(CollectPlace(r))' =>
            TryPast(CollectPlace(r)) \/ TryAt(CollectPlace(r))
      <4>1. PICK n \in Nat : n = CollectPlace(r)
        BY <1>3
      <4>2. TryPast(n)' => TryPast(n) \/ TryAt(n)
        BY <1>1, <1>3, <4>1, PastFrom
      <4> QED  BY <1>2, <4>1, <4>2 DEF TryPast
    <3> QED  BY <3>1, <3>2, <3>3
  <2>3. Over(0)' => Told(r)' /\ At(r, attempt)' # "about"
    <3>1. CASE Over(0)
      BY <3>1, StoppingKept, <1>1
    <3>2. CASE TryAt(18 + 3 * M)
      <4>1. TryPast(CollectPlace(r))
        BY <1>3, <3>2 DEF TryAt, TryPast
      <4> QED  BY <4>1, StoppingKept, <1>1
    <3> QED  BY <1>1, <3>1, <3>2, PastFrom
  <2>4. Over(FinalSignal(r))' =>
          Told(r)' /\ At(r, attempt)' \notin {"about", "wait"}
    <3>1. CASE Over(FinalSignal(r))
      BY <3>1, StoppingKept, <1>1
    <3>2. CASE FinallyAt(FinalSignal(r)) /\ generator = "timed"
      <4>1. Over(0)
        BY <1>3, <2>0, <3>2 DEF Over, FinallyAt
      <4>2. At(r, attempt) # "about"
        BY <2>0, <4>1 DEF StopOne
      <4> QED  BY <2>0, <3>2, <4>2, <1>4, <1>5
    <3>3. Over(FinalSignal(r))' =>
            \/ Over(FinalSignal(r))
            \/ FinallyAt(FinalSignal(r)) /\ generator = "timed"
      <4>1. PICK n \in Nat : n = FinalSignal(r)
        BY <1>3, <2>0
      <4>2. Over(n)' => Over(n) \/ (FinallyAt(n) /\ generator = "timed")
        BY <1>1, <1>3, <2>0, <4>1, PastFrom
      <4> QED  BY <1>2, <4>1, <4>2 DEF Over
    <3> QED  BY <3>1, <3>2, <3>3
  <2> QED  BY <1>1, <2>1, <2>2, <2>3, <2>4 DEF StopOne
<1>7. Over(FinalSignal("server"))' => Told("server")'
  <2>1. CASE Over(FinalSignal("server"))
    BY <2>1, StoppingKept, <1>1
  <2>2. CASE FinallyAt(FinalSignal("server"))
    <3>1. attempt \in Attempts
      BY <2>2, AttemptIn DEF FinallyAt
    <3>2. Termed("server", prog["server"][attempt], prog'["server"][attempt])
      BY <1>1, <2>2, <3>1 DEF Signals
    <3> QED  BY <1>1, <1>5, <3>2
  <2>3. PICK n \in Nat : n = FinalSignal("server")
    BY <1>1, <1>3
  <2>4. Over(n)' => Over(n) \/ FinallyAt(n)
    BY <1>1, <1>3, <2>3, PastFrom
  <2> QED  BY <1>2, <2>1, <2>2, <2>3, <2>4 DEF Over
<1>8. ASSUME NEW r \in Roles
      PROVE  EndOne(r)'
  <2>1. ASSUME FinallyAt(FinalCollect(r)), generator = "timed"
        PROVE  Dead(r)'
    <3>1. attempt \in Attempts /\ Gathered(r)
      BY <1>1, <2>1, AttemptIn DEF Collects, FinallyAt
    <3>2. Over(FinalSignal(r))
      BY <1>3, <2>1 DEF Over, FinallyAt
    <3>3. /\ Told(r)
          /\ r \in Tunnel => At(r, attempt) \notin {"about", "wait"}
      BY <1>1, <3>2, StoppingIs DEF StopOne, Roles, Tunnel
    <3>4. At(r, attempt) # "shell"
      <4>1. CASE r \in Tunnel
        <5>1. Reached(AwaitPlace(r) + 1)
          BY <2>1, LatePlaces, <4>1 DEF FinallyAt
        <5> QED  BY <4>1, <5>1 DEF Named, Settled
      <4>2. CASE r = "server"
        BY <3>1, <4>2 DEF Sound, Programs1, Seen
      <4> QED  BY <4>1, <4>2 DEF Roles, Tunnel
    <3>5. Dead(r)
      BY <1>1, <3>1, <3>3, <3>4
         DEF Gathered, AtRest, Stalled, Told, Dead, Roles, Tunnel
    <3> QED  BY <1>1, <3>1, <3>5 DEF Gathered, Dead, Alive, At
  <2>2. Over(FinalCollect(r))' => Dead(r)'
    <3>1. CASE Over(FinalCollect(r))
      BY <3>1, StoppingKept, <1>1
    <3>2. PICK n \in Nat : n = FinalCollect(r)
      BY <1>3
    <3>3. Over(n)' => Over(n) \/ (FinallyAt(n) /\ generator = "timed")
      BY <1>1, <1>3, <3>2, PastFrom
    <3> QED  BY <1>2, <2>1, <3>1, <3>2, <3>3 DEF Over
  <2>3. Rested' => Dead(r)'
    <3>1. SUFFICES ASSUME FinallyAt(6 + 2 * M), generator = "timed"
                   PROVE  Dead(r)'
      BY <1>1, PastFrom
    <3>2. FinalCollect(r) = 6 + 2 * M \/ Over(FinalCollect(r))
      BY <1>1, <1>3, <3>1 DEF Over, FinallyAt, Numbers
    <3> QED  BY <1>1, <2>1, <3>1, <3>2, StoppingKept
  <2> QED  BY <2>2, <2>3 DEF EndOne
<1> QED
  <2>1. Stopping' <=> /\ \A r \in Tunnel : StopOne(r)'
                      /\ Over(FinalSignal("server"))' => Told("server")'
                      /\ \A r \in Roles : EndOne(r)'
    BY DEF Stopping, StopOne, EndOne, Rested
  <2> QED  BY <1>6, <1>7, <1>8, <2>1

-----------------------------------------------------------------------------
(* Chain: no program counts more than the one before it passed on *)

\* A new attempt has no traffic.
LEMMA ChainFresh ==
  ASSUME Fresh
  PROVE  Chain'
  BY DEF Fresh, Chain

\* While there is traffic nobody new comes to serve.
LEMMA ServedKept ==
  ASSUME Types, Sound, Course, Named, Going, generator # "off",
         NEW r \in Tunnel, Served(r)'
  PROVE  Served(r)
<1>1. /\ r \in Roles /\ attempt \in Attempts /\ attempt' = attempt
      /\ Reached(AwaitPlace(r) + 1)
  BY AttemptIn DEF Tunnel, Roles, Going, Reached
<1>2. At(r, attempt) \in Settled
  BY <1>1 DEF Named
<1>3. Evolves(r, prog[r][attempt], prog'[r][attempt])
  BY <1>1, <1>2, Continues DEF Settled
<1>4. CASE At(r, attempt) = "gone"
  <2>1. prog'[r][attempt] = prog[r][attempt]
    BY <1>3, <1>4 DEF Evolves, At
  <2> QED  BY <1>1, <2>1 DEF Served, Held, At, HeldAt, Tunnel
<1>5. CASE At(r, attempt) # "gone"
  BY <1>2, <1>5 DEF Served, Held, HeldAt, Settled, Tunnel
<1> QED  BY <1>4, <1>5

\* The counts and the channels are natural numbers.
LEMMA CountsTyped ==
  ASSUME Types, attempt \in Attempts
  PROVE  /\ \A r \in Roles : prog[r][attempt].count \in Nat
         /\ sent \in Nat /\ queue \in Nat /\ wire \in Nat /\ out \in Nat
         /\ queue + wire + out <= sent
<1>1. sent \in Nat
  <2>1. plan.packets \in Nat
    BY ExperimentAssumption DEF Types, ExperimentAssumption
  <2> QED  BY <2>1 DEF Types, Target
<1> QED  BY <1>1 DEF Types, ProgramState

\* The three links, of any counts.
Links(g, c, s, n, q, w, o, sg, sr) ==
  /\ sg => g + q <= n
  /\ sg /\ sr => c + w <= g
  /\ sr => s + o <= c

\* Chain as arithmetic about the three counts and the three channels.
LEMMA ChainIs ==
  Chain <=> (generator # "off" =>
               Links(prog["gateway"][attempt].count,
                     prog["receiver"][attempt].count,
                     prog["server"][attempt].count,
                     sent, queue, wire, out,
                     Served("gateway"), Served("receiver")))
  BY DEF Chain, Links

\* The runner drops packets of the channels, and adds none.
LEMMA ChainRunner ==
  ASSUME Types, Sound, Course, Named, Chain, RunnerFacts
  PROVE  Chain'
<1>1. /\ Going /\ Control /\ Fates /\ Numbers /\ attempt' = attempt
      /\ sent' = sent /\ queue' \in {0, queue} /\ wire' = wire /\ out' = out
  BY RunnerGoing, NumbersAre DEF RunnerFacts, Going, Others
<1>2. attempt \in Attempts
  BY <1>1, AttemptIn DEF Control, Raises, Onwards, TryAt
<1>3. ASSUME generator' # "off", NEW r \in Roles
      PROVE  prog'[r][attempt].count = prog[r][attempt].count
  <2>1. ~TryAt(StartPlace(r))
    BY <1>1, <1>3 DEF Control, Onwards, Course, TryAt, Numbers, Roles
  <2> QED  BY <1>1, <1>2, <2>1 DEF Fates, Started
<1>4. /\ \A r \in Roles : prog[r][attempt].count \in Nat
      /\ sent \in Nat /\ queue \in Nat /\ wire \in Nat /\ out \in Nat
      /\ queue + wire + out <= sent
      /\ "gateway" \in Roles /\ "receiver" \in Roles /\ "server" \in Roles
  BY <1>2, CountsTyped DEF Roles
<1>5. CASE generator' = "off"
  BY <1>5 DEF Chain
<1>6. CASE generator' # "off" /\ generator = "off"
  <2>1. /\ sent = 0 /\ \A r \in Roles : prog[r][attempt].count = 0
    BY <1>2, <1>6, AttemptIn DEF Course
  <2>2. queue = 0 /\ wire = 0 /\ out = 0
    BY <1>4, <2>1
  <2> QED  BY <1>1, <1>3, <1>4, <1>6, <2>1, <2>2 DEF Chain
<1>7. CASE generator' # "off" /\ generator # "off"
  <2>1. /\ Served("gateway")' => Served("gateway")
        /\ Served("receiver")' => Served("receiver")
    BY <1>1, <1>7, ServedKept DEF Tunnel
  <2> QED  BY <1>1, <1>3, <1>4, <1>7, <2>1 DEF Chain
<1> QED  BY <1>5, <1>6, <1>7

\* A sum stays under its bound when a channel only empties.
LEMMA Fewer ==
  \A g, n, q, q1 \in Nat : q1 <= q /\ g + q <= n => g + q1 <= n
  OBVIOUS

\* A packet that is sent is counted by the generator before it is queued.
LEMMA ChainQuiet ==
  ASSUME Types, Sound, Course, Chain, Quiet
  PROVE  Chain'
<1>1. /\ prog' = prog /\ attempt' = attempt /\ wire' = wire /\ out' = out
      /\ \A r : Served(r)' <=> Served(r)
  BY DEF Quiet, Served, Held, At, HeldAt
<1>2. CASE generator' = "off"
  BY <1>2 DEF Chain
<1>3. CASE generator' # "off"
  <2>1. generator # "off" /\ attempt \in Attempts
    BY <1>3, AttemptIn DEF Quiet, Dies, Sends, Ends, Watches
  <2>2. /\ \A r \in Roles : prog[r][attempt].count \in Nat
        /\ sent \in Nat /\ queue \in Nat
        /\ "gateway" \in Roles
    BY <2>1, CountsTyped DEF Roles
  <2>3. \/ sent' = sent /\ queue' = queue
        \/ sent' = sent + 1 /\ queue' \in {queue, queue + 1}
    BY DEF Quiet, Dies, Sends, Ends, Watches
  <2> QED  BY <1>1, <2>1, <2>2, <2>3 DEF Chain
<1> QED  BY <1>2, <1>3

\* A program takes a packet from its channel for every one it counts: an
\* earlier attempt's program takes no part any more.
LEMMA ChainProgram ==
  ASSUME Types, Sound, Course, OldStop, Named, Chain,
         NEW r \in Roles, NEW a \in Attempts, ProgramMoves(r, a)
  PROVE  Chain'
<1>1. /\ Going /\ attempt' = attempt /\ sent' = sent
      /\ generator' = generator /\ OthersSame(r, a) /\ Passes(r, a)
  BY ProgramGoing DEF ProgramMoves, StepFacts
<1>2. CASE generator = "off"
  BY <1>1, <1>2 DEF Chain
<1>3. CASE generator # "off"
  <2>1. /\ attempt \in Attempts
        /\ Served("gateway")' => Served("gateway")
        /\ Served("receiver")' => Served("receiver")
    BY <1>1, <1>3, ServedKept, AttemptIn DEF Tunnel
  <2>2. /\ \A s \in Roles : prog[s][attempt].count \in Nat
        /\ sent \in Nat /\ queue \in Nat /\ wire \in Nat /\ out \in Nat
        /\ "gateway" \in Roles /\ "receiver" \in Roles /\ "server" \in Roles
    BY <2>1, CountsTyped DEF Roles
  <2>3. \A s \in Roles : s # r \/ a # attempt =>
                           prog'[s][attempt] = prog[s][attempt]
    BY <1>1, <2>1 DEF OthersSame
  <2>4. ASSUME a # attempt, prog[r][a].at = "wait"
        PROVE  r # "server" /\ ~Served(r)
    BY <1>3, <2>4 DEF OldStop, Reached, Alive, At
  <2> DEFINE g == prog["gateway"][attempt].count
             c == prog["receiver"][attempt].count
             s == prog["server"][attempt].count
             g1 == prog'["gateway"][attempt].count
             c1 == prog'["receiver"][attempt].count
             s1 == prog'["server"][attempt].count
  <2>5. /\ Served("gateway") => g + queue <= sent
        /\ Served("gateway") /\ Served("receiver") => c + wire <= g
        /\ Served("receiver") => s + out <= c
    BY <1>3, ChainIs DEF Links
  <2>6. /\ g \in Nat /\ c \in Nat /\ s \in Nat
        /\ sent \in Nat /\ queue \in Nat /\ wire \in Nat /\ out \in Nat
    BY <2>2
  <2>7. /\ Served("gateway")' => g + queue <= sent
        /\ Served("gateway")' /\ Served("receiver")' => c + wire <= g
        /\ Served("receiver")' => s + out <= c
    BY <2>1, <2>5
  <2>8. Links(g1, c1, s1, sent, queue', wire', out',
              Served("gateway")', Served("receiver")')
    <3>1. CASE /\ prog'[r][a].count = prog[r][a].count
               /\ queue' \in {0, queue} /\ wire' \in {0, wire}
               /\ out' \in {0, out}
      <4>1. g1 = g /\ c1 = c /\ s1 = s
        BY <2>2, <2>3, <3>1
      <4> HIDE DEF g, c, s, g1, c1, s1
      <4>2. /\ queue' \in Nat /\ queue' <= queue
            /\ wire' \in Nat /\ wire' <= wire
            /\ out' \in Nat /\ out' <= out
        BY <2>2, <3>1
      <4>3. /\ g + queue <= sent => g1 + queue' <= sent
            /\ c + wire <= g => c1 + wire' <= g1
            /\ s + out <= c => s1 + out' <= c1
        BY <2>6, <4>1, <4>2, Fewer
      <4> QED  BY <2>7, <4>3 DEF Links
    <3>2. CASE /\ r = "gateway" /\ prog[r][a].at = "wait"
               /\ prog'[r][a].count = prog[r][a].count + 1
               /\ queue > 0 /\ queue' = queue - 1
               /\ wire' \in {wire, wire + 1} /\ out' = out
      <4>1. c1 = c /\ s1 = s
        BY <2>2, <2>3, <3>2
      <4>2. g1 = g + 1 \/ ~Served("gateway")
        BY <2>4, <3>2
      <4> HIDE DEF g, c, s, g1, c1, s1
      <4>3. Served("gateway")' => g1 + queue' <= sent
        BY <2>1, <2>2, <2>5, <2>6, <3>2, <4>1, <4>2
      <4>4. Served("gateway")' /\ Served("receiver")' => c1 + wire' <= g1
        BY <2>1, <2>2, <2>5, <2>6, <3>2, <4>1, <4>2
      <4>5. Served("receiver")' => s1 + out' <= c1
        BY <2>1, <2>2, <2>5, <2>6, <3>2, <4>1, <4>2
      <4> QED  BY <4>3, <4>4, <4>5 DEF Links
    <3>3. CASE /\ r = "receiver" /\ prog[r][a].at = "wait"
               /\ prog'[r][a].count = prog[r][a].count + 1
               /\ wire > 0 /\ wire' = wire - 1
               /\ out' \in {out, out + 1} /\ queue' = queue
      <4>1. g1 = g /\ s1 = s
        BY <2>2, <2>3, <3>3
      <4>2. c1 = c + 1 \/ ~Served("receiver")
        BY <2>4, <3>3
      <4> HIDE DEF g, c, s, g1, c1, s1
      <4>3. Served("gateway")' => g1 + queue' <= sent
        BY <2>1, <2>2, <2>5, <2>6, <3>3, <4>1, <4>2
      <4>4. Served("gateway")' /\ Served("receiver")' => c1 + wire' <= g1
        BY <2>1, <2>2, <2>5, <2>6, <3>3, <4>1, <4>2
      <4>5. Served("receiver")' => s1 + out' <= c1
        BY <2>1, <2>2, <2>5, <2>6, <3>3, <4>1, <4>2
      <4> QED  BY <4>3, <4>4, <4>5 DEF Links
    <3>4. CASE /\ r = "server" /\ prog[r][a].at = "wait"
               /\ prog'[r][a].count = prog[r][a].count + 1
               /\ out > 0 /\ out' = out - 1
               /\ queue' = queue /\ wire' = wire
      <4>1. g1 = g /\ c1 = c
        BY <2>2, <2>3, <3>4
      <4>2. s1 = s + 1
        BY <2>4, <3>4
      <4> HIDE DEF g, c, s, g1, c1, s1
      <4>3. Served("gateway")' => g1 + queue' <= sent
        BY <2>1, <2>2, <2>5, <2>6, <3>4, <4>1, <4>2
      <4>4. Served("gateway")' /\ Served("receiver")' => c1 + wire' <= g1
        BY <2>1, <2>2, <2>5, <2>6, <3>4, <4>1, <4>2
      <4>5. Served("receiver")' => s1 + out' <= c1
        BY <2>1, <2>2, <2>5, <2>6, <3>4, <4>1, <4>2
      <4> QED  BY <4>3, <4>4, <4>5 DEF Links
    <3> QED  BY <1>1, <3>1, <3>2, <3>3, <3>4 DEF Passes
  <2>9. Chain' <=> (generator' # "off" =>
                      Links(prog'["gateway"][attempt'].count,
                            prog'["receiver"][attempt'].count,
                            prog'["server"][attempt'].count,
                            sent', queue', wire', out',
                            Served("gateway")', Served("receiver")'))
    BY DEF Chain, Links
  <2> QED  BY <1>1, <2>8, <2>9
<1> QED  BY <1>2, <1>3

-----------------------------------------------------------------------------
(* Logs: what is in the log of a program that has been collected *)

\* A new attempt has collected no log.
LEMMA LogsFresh ==
  ASSUME Fresh
  PROVE  Logs'
<1>1. /\ runner'.in = "try" /\ runner'.at = 1 /\ plan' = plan
  BY DEF Fresh
<1>2. \A r \in Tunnel : CollectPlace(r)' \in Nat /\ CollectPlace(r)' > 1
  BY <1>1, NumbersAre, PlacesSame DEF Numbers, Tunnel
<1>3. \A n \in Nat : n > 1 => ~(1 > n)
  OBVIOUS
<1> QED  BY <1>1, <1>2, <1>3 DEF Logs, TryPast

Closed(r) == \/ At(r, attempt) = "gone"
             \/ ~prog[r][attempt].attached /\ ~prog[r][attempt].logged

\* A log that is complete stays so.
LEMMA ClosedKept ==
  ASSUME Types, Sound, Course, Going, NEW r \in Tunnel,
         TryPast(CollectPlace(r)), Closed(r)
  PROVE  Closed(r)'
<1>1. /\ attempt \in Attempts /\ ~TryAt(StartPlace(r)) /\ r \in Roles
      /\ attempt' = attempt
  BY LatePlaces DEF Tunnel, Roles, Going
<1> DEFINE p == prog[r][attempt]  n == prog'[r][attempt]
<1>2. Evolves(r, p, n)
  BY <1>1 DEF Going, Evolution, Started
<1>3. p.at = "gone" \/ (~p.attached /\ ~p.logged)
  BY DEF Closed, At
<1> HIDE DEF p, n
<1>4. p.at = "gone" => n.at = "gone"
  BY <1>2 DEF Evolves
<1>5. ~p.attached /\ ~p.logged => ~n.attached /\ ~n.logged
  BY <1>2 DEF Evolves
<1> QED  BY <1>1, <1>3, <1>4, <1>5 DEF Closed, At, p, n

\* A program is collected when it has gone, or is cut off from its log.
LEMMA LogsRunner ==
  ASSUME Types, Sound, Course, Named, Logs, RunnerFacts
  PROVE  Logs'
<1> SUFFICES ASSUME NEW r \in Tunnel, TryPast(CollectPlace(r))'
             PROVE  Closed(r)'
  BY DEF Logs, Closed
<1>1. /\ Numbers /\ Going /\ Control /\ Collects /\ Fates /\ plan' = plan
      /\ attempt' = attempt /\ r \in Roles
      /\ CollectPlace(r) \in Nat /\ CollectPlace(r) > 0
      /\ CollectPlace(r)' = CollectPlace(r)
  BY NumbersAre, RunnerGoing, PlacesSame
     DEF RunnerFacts, Going, Tunnel, Roles, Numbers
<1>2. CASE TryPast(CollectPlace(r))
  BY <1>1, <1>2, ClosedKept DEF Logs, Closed
<1>3. CASE TryAt(CollectPlace(r))
  <2>1. /\ attempt \in Attempts /\ Gathered(r) /\ ~TryAt(StartPlace(r))
        /\ At(r, attempt) \in Settled
    BY <1>1, <1>3, LatePlaces DEF Collects, Named
  <2>2. prog'[r][attempt].logged = prog[r][attempt].logged
    BY <1>1, <2>1 DEF Fates, Started
  <2>3. CASE ~Alive(r, attempt)
    BY <1>1, <2>1, <2>3 DEF Gathered, Closed, At, Alive, Settled
  <2>4. CASE AtRest(r, attempt) /\ Alive(r, attempt)
             /\ ~prog'[r][attempt].attached
    <3>1. At(r, attempt) \in {"test", "about", "wait"}
      BY <2>1, <2>4 DEF AtRest, Stalled, InLoop, Settled
    <3>2. ~prog[r][attempt].logged
      BY <1>1, <2>1, <3>1 DEF Sound, Programs1, Tunnel
    <3> QED  BY <1>1, <2>2, <2>4, <3>2 DEF Closed
  <2> QED  BY <2>1, <2>3, <2>4 DEF Gathered
<1>4. PICK n \in Nat : n = CollectPlace(r)
  BY <1>1
<1>5. TryPast(n)' => TryPast(n) \/ TryAt(n)
  BY <1>1, <1>4, PastFrom
<1> QED  BY <1>1, <1>2, <1>3, <1>4, <1>5 DEF TryPast

\* No other step moves the runner past a collection, or opens a log again.
LEMMA LogsOthers ==
  ASSUME Types, Sound, Course, Logs, Going,
         runner'.in = "try" => runner' = runner
  PROVE  Logs'
<1> SUFFICES ASSUME NEW r \in Tunnel, TryPast(CollectPlace(r))'
             PROVE  Closed(r)'
  BY DEF Logs, Closed
<1>1. CollectPlace(r)' = CollectPlace(r)
  BY PlacesSame DEF Going
<1>2. TryPast(CollectPlace(r))
  BY <1>1 DEF TryPast
<1> QED  BY <1>2, ClosedKept DEF Logs, Closed

\* Nor does a step of a program.
LEMMA LogsProgram ==
  ASSUME Types, Sound, Course, Logs,
         NEW r \in Roles, NEW a \in Attempts, ProgramMoves(r, a)
  PROVE  Logs'
  BY ProgramGoing, LogsOthers DEF ProgramMoves

\* Nor does a quiet one.
LEMMA LogsQuiet ==
  ASSUME Types, Sound, Course, Logs, Quiet
  PROVE  Logs'
  BY QuietGoing, LogsOthers DEF Quiet, Dies, Sends, Ends, Watches, Idle

-----------------------------------------------------------------------------
(* Summaries: whose the summary of a program is *)

\* What Summaries says of one role, once the old files have been removed.
Calm == ~MayFail("receive")
Waiting == generator = "off" /\ runner.in = "try"
SummaryOne(r) ==
  /\ csv[r].by = attempt => /\ At(r, attempt) \in {"release", "gone"}
                            /\ csv[r].count = prog[r][attempt].count
  /\ plan.mode = "full" /\ ~MayFail("summary") /\ prog[r][attempt].logged
     /\ At(r, attempt) \in {"release", "gone"} => csv[r].by = attempt
  /\ Calm /\ Served(r) => csv[r].by \in {0, attempt}
  /\ Calm /\ Waiting =>
       /\ csv[r].by = 0 /\ ~prog[r][attempt].stop
       /\ At(r, attempt) \notin {"statistics", "summary", "release"}

\* Summaries, one program at a time.
LEMMA SummariesIs ==
  Summaries <=> \A r \in Tunnel :
                  csv[r].by <= attempt /\ (Reached(4) => SummaryOne(r))
  BY DEF Summaries, SummaryOne, Calm, Waiting

\* The same of the next state.
LEMMA SummariesNext ==
  (\A r \in Tunnel :
     (csv[r].by <= attempt)' /\ (Reached(4)' => SummaryOne(r)'))
    => Summaries'
  BY DEF Summaries, SummaryOne, Calm, Waiting

\* A new attempt finds the summaries of the earlier ones.
LEMMA SummariesFresh ==
  ASSUME Types, Summaries, Fresh
  PROVE  Summaries'
<1> SUFFICES ASSUME NEW r \in Tunnel
             PROVE  (csv[r].by <= attempt)' /\ (Reached(4)' => SummaryOne(r)')
  BY SummariesNext
<1>1. csv[r].by \in Nat /\ attempt \in Nat /\ csv[r].by <= attempt
  BY ExperimentAssumption DEF Types, Summaries, ExperimentAssumption
<1>2. csv'[r].by <= attempt'
  BY <1>1 DEF Fresh
<1> QED  BY <1>2 DEF Fresh, Reached

\* A quiet step writes no summary.
LEMMA SummariesQuiet ==
  ASSUME Types, Summaries, Quiet
  PROVE  Summaries'
<1> SUFFICES ASSUME NEW r \in Tunnel
             PROVE  (csv[r].by <= attempt)' /\ (Reached(4)' => SummaryOne(r)')
  BY SummariesNext
<1>1. /\ csv' = csv /\ prog' = prog /\ attempt' = attempt /\ plan' = plan
      /\ Reached(4)' => Reached(4)
  BY ReachedQuiet DEF Quiet
<1>2. csv[r].by <= attempt /\ (Reached(4) => SummaryOne(r))
  BY SummariesIs
<1>3. Waiting' => Waiting
  BY DEF Waiting, Quiet, Dies, Sends, Ends, Watches, Idle
<1> QED  BY <1>1, <1>2, <1>3
            DEF SummaryOne, Calm, MayFail, At, Served, Held, HeldAt

\* The rm -f leaves no summary, and the runner writes none.
LEMMA SummariesRunner ==
  ASSUME Types, Sound, Course, Summaries, RunnerFacts
  PROVE  Summaries'
<1> SUFFICES ASSUME NEW r \in Tunnel
             PROVE  (csv[r].by <= attempt)' /\ (Reached(4)' => SummaryOne(r)')
  BY SummariesNext
<1>1. /\ Numbers /\ Going /\ Control /\ Fates /\ Files /\ LeftAlone
      /\ plan' = plan /\ attempt' = attempt /\ r \in Roles
  BY NumbersAre, RunnerGoing DEF RunnerFacts, Going, Tunnel, Roles
<1>2. /\ csv[r].by \in Nat /\ attempt \in Nat /\ csv[r].by <= attempt
      /\ r \in DOMAIN csv
  BY ExperimentAssumption, SummariesIs DEF Types, ExperimentAssumption
<1>3. csv'[r] = csv[r] \/ (TryAt(3) /\ csv'[r].by = 0)
  BY <1>1, <1>2 DEF Files, NoSummary
<1>4. csv'[r].by <= attempt'
  BY <1>1, <1>2, <1>3
<1>5. CASE ~Reached(4)'
  BY <1>4, <1>5
<1>6. CASE Reached(4)' /\ ~Reached(4)
  <2>1. TryAt(4 - 1) /\ runner'.in = "try"
    BY <1>1, <1>6, ReachedFrom DEF Numbers
  <2>2. TryAt(3) /\ attempt \in Attempts
    BY <2>1, AttemptIn DEF TryAt
  <2>3. csv'[r].by = 0 /\ attempt # 0
    BY <1>1, <1>2, <2>1, <2>2 DEF Files, NoSummary, Attempts
  <2>4. prog[r][attempt] = NoProgram
    <3>1. At(r, attempt) = "none"
      BY <1>1, <2>2 DEF Course, TryAt, Numbers, Tunnel
    <3> QED  BY <1>1, <2>2, <3>1 DEF Sound, Programs1
  <2>5. prog'[r][attempt] = NoProgram
    <3>1. ~Started(r, attempt)
      BY <1>1, <2>2 DEF Started, TryAt, Numbers, Tunnel
    <3> QED  BY <1>1, <2>2, <2>4, <3>1 DEF LeftAlone, TryAt, Numbers
  <2>6. /\ At(r, attempt)' = "none" /\ ~prog'[r][attempt].logged
        /\ ~prog'[r][attempt].stop /\ ~Served(r)'
    BY <1>1, <2>5 DEF NoProgram, At, Served, Held, HeldAt
  <2> QED  BY <1>1, <1>4, <2>3, <2>6 DEF SummaryOne
<1>7. CASE Reached(4)
  <2>1. SummaryOne(r) /\ attempt \in Attempts
    BY <1>7, SummariesIs, AttemptIn DEF Reached
  <2>2. ~TryAt(3)
    BY <1>1, <1>7 DEF Reached, TryAt, Course, Numbers
  <2>3. csv'[r] = csv[r]
    BY <1>3, <2>2
  <2>4. Calm' = Calm /\ plan'.mode = plan.mode
        /\ (MayFail("summary"))' = MayFail("summary")
    BY <1>1 DEF Calm, MayFail
  <2>5. Waiting' => Waiting
    BY <1>1 DEF Waiting, Control, Onwards, TryAt, Idle
  <2> DEFINE p == prog[r][attempt]  n == prog'[r][attempt]
  <2>6. CASE Started(r, attempt)
    <3>1. n.at = "shell" /\ ~n.stop /\ ~n.logged
      <4>1. Stages(r)[1] = "shell"
        BY AfterIs DEF Types
      <4> QED  BY <2>6, <4>1 DEF Started, NoProgram
    <3>2. At(r, attempt) = "none"
      BY <1>1, <2>6 DEF Started, Course, TryAt, Numbers, Tunnel
    <3>3. csv[r].by # attempt
      BY <2>1, <3>2 DEF SummaryOne
    <3>4. ~Served(r)'
      BY <1>1, <3>1 DEF Served, Held, HeldAt, At
    <3>5. At(r, attempt)' = "shell"
      BY <1>1, <3>1 DEF At
    <3> HIDE DEF p, n
    <3> QED  BY <1>1, <1>4, <2>1, <2>3, <2>4, <2>5, <3>1, <3>3, <3>4, <3>5
                DEF SummaryOne, n
  <2>7. CASE ~Started(r, attempt)
    <3>1. /\ Evolves(r, p, n) /\ n.count = p.count /\ n.logged = p.logged
          /\ n.at \in HeldAt(r) => p.at \in HeldAt(r)
          /\ p.at = "summary" => n.at = "summary"
      BY <1>1, <2>1, <2>7 DEF Fates
    <3>2. At(r, attempt)' = n.at /\ prog'[r][attempt'] = n
          /\ At(r, attempt) = p.at
      BY <1>1 DEF At
    <3>3. Served(r)' => Served(r)
      BY <3>1, <3>2, <1>1 DEF Served, Held, HeldAt
    <3>4. Waiting' => n = p
      <4>1. SUFFICES ASSUME Waiting
                     PROVE  n = p
        BY <2>5
      <4>2. runner.at \in Nat /\ runner.at >= 4 /\ ~(runner.at > TrafficPlace)
        BY <1>1, <1>7, <4>1
           DEF Waiting, Reached, Course, TryPast, Types, Somewhere, Idle, Numbers
      <4>3. runner.in = "try" /\ runner.at > 1 /\ runner.at < 12 + M
        BY <1>1, <4>1, <4>2 DEF Waiting, Numbers
      <4> QED  BY <1>1, <2>1, <2>7, <4>3 DEF LeftAlone
    <3>5. p.logged => p.at \in {"summary", "release", "gone"}
      BY <1>1, <2>1 DEF Sound, Programs1, At, Tunnel
    <3> HIDE DEF p, n
    <3>6. p.at \in {"release", "gone"} => n.at \in {"release", "gone"}
      BY <3>1 DEF Evolves
    <3>7. n.logged /\ n.at \in {"release", "gone"} => p.at \in {"release", "gone"}
      BY <3>1, <3>5
    <3>8. /\ csv'[r].by = attempt => /\ n.at \in {"release", "gone"}
                                     /\ csv'[r].count = n.count
          /\ plan.mode = "full" /\ ~MayFail("summary") /\ n.logged
             /\ n.at \in {"release", "gone"} => csv'[r].by = attempt
      BY <2>1, <2>3, <3>1, <3>2, <3>6, <3>7 DEF SummaryOne, p
    <3>9. /\ Calm /\ Served(r)' => csv'[r].by \in {0, attempt}
          /\ Calm /\ Waiting' =>
               /\ csv'[r].by = 0 /\ ~n.stop
               /\ n.at \notin {"statistics", "summary", "release"}
      BY <2>1, <2>3, <2>5, <3>2, <3>3, <3>4 DEF SummaryOne, p
    <3> QED  BY <1>1, <1>4, <2>4, <3>2, <3>8, <3>9 DEF SummaryOne
  <2> QED  BY <2>6, <2>7
<1> QED  BY <1>5, <1>6, <1>7

\* The step of a program that is another's, or of an earlier attempt.
LEMMA SummariesByOther ==
  ASSUME Types, Sound, Course, OldStop, Summaries,
         NEW r \in Roles, NEW a \in Attempts, ProgramMoves(r, a),
         NEW s \in Tunnel, attempt \in Attempts, s # r \/ a # attempt,
         Reached(4)
  PROVE  SummaryOne(s)'
<1>1. /\ plan' = plan /\ attempt' = attempt /\ runner' = runner
      /\ generator' = generator
      /\ prog'[s][attempt] = prog[s][attempt] /\ s \in Roles
      /\ WritesSummary(r, a) /\ SummaryOne(s)
  BY SummariesIs
     DEF ProgramMoves, StepFacts, OthersSame, Tunnel, Roles
<1>2. /\ Calm' = Calm /\ Waiting' = Waiting /\ At(s, attempt)' = At(s, attempt)
      /\ (MayFail("summary"))' = MayFail("summary")
      /\ Served(s)' = Served(s)
  BY <1>1 DEF Calm, MayFail, Waiting, At, Served, Held, HeldAt
<1>3. CASE csv'[s] = csv[s]
  BY <1>1, <1>2, <1>3 DEF SummaryOne
<1>4. CASE csv'[s] # csv[s]
  <2>1. /\ s = r /\ a # attempt /\ prog[r][a].at = "summary"
        /\ csv'[s].by = a \/ (csv'[s].by = 0 /\ MayFail("summary"))
    BY <1>1, <1>4 DEF WritesSummary, Types, NoSummary
  <2>2. Reached(3)
    BY ReachedEarlier
  <2>3. ~Served(s) /\ ~(Calm /\ Waiting)
    BY <2>1, <2>2 DEF OldStop, Alive, At, Calm, Waiting
  <2>4. ~prog[s][attempt].logged
    BY <2>3 DEF Served
  <2>5. csv'[s].by # attempt
    BY <2>1 DEF Attempts
  <2> QED  BY <1>1, <1>2, <2>3, <2>4, <2>5 DEF SummaryOne
<1> QED  BY <1>3, <1>4

\* The step of this attempt's own program: the summary it writes has its count.
LEMMA SummariesByOwn ==
  ASSUME Types, Sound, Course, Named, Summaries,
         NEW s \in Tunnel, attempt \in Attempts, ProgramMoves(s, attempt),
         Reached(4)
  PROVE  SummaryOne(s)'
<1>1. /\ plan' = plan /\ attempt' = attempt /\ runner' = runner
      /\ generator' = generator /\ s \in Roles /\ s # "server"
      /\ WritesSummary(s, attempt) /\ SummaryOne(s)
      /\ Unprompted(s, attempt) /\ Going
      /\ csv \in [Tunnel -> [by : 0 .. MaxAttempts, count : Nat]]
  BY SummariesIs, ProgramGoing
     DEF ProgramMoves, StepFacts, Tunnel, Roles, Types
<1>2. /\ Calm' = Calm /\ Waiting' = Waiting
      /\ (MayFail("summary"))' = MayFail("summary")
  BY <1>1 DEF Calm, MayFail, Waiting
<1> DEFINE p == prog[s][attempt]  n == prog'[s][attempt]
<1>3. /\ Evolves(s, p, n)
      /\ p.logged => p.at \in {"summary", "release", "gone"}
  BY <1>1 DEF ProgramMoves, StepFacts, Sound, Programs1, At
<1>4. At(s, attempt)' = n.at /\ prog'[s][attempt'] = n
      /\ At(s, attempt) = p.at
  BY <1>1 DEF At
<1>5. \/ /\ csv'[s] = csv[s]
         /\ plan.mode = "full" /\ ~MayFail("summary") =>
              ~(p.at = "summary" /\ n.at \in {"release", "gone"})
      \/ /\ p.at = "summary" /\ n.at = "release"
         /\ csv'[s] = [by |-> attempt, count |-> p.count]
      \/ /\ p.at = "summary" /\ n.at = "release"
         /\ csv'[s].by = 0 /\ MayFail("summary")
  BY <1>1 DEF WritesSummary, NoSummary
<1>6. Calm /\ Waiting =>
        /\ n.stop = p.stop
        /\ ~p.stop /\ p.at \notin {"statistics", "summary", "release"}
             => n.at \notin {"statistics", "summary", "release"}
  BY <1>1 DEF Calm, Unprompted
<1>7. Served(s)' => Served(s) \/ Waiting
  <2>1. generator # "off" \/ Waiting
    BY DEF Reached, Waiting
  <2> QED  BY <1>1, <2>1, ServedKept
<1>8. SummaryOne(s) /\ 0 # attempt
  BY <1>1 DEF Attempts
<1>9. /\ csv[s].by = attempt => /\ p.at \in {"release", "gone"}
                                /\ csv[s].count = p.count
      /\ Calm /\ Served(s) => csv[s].by \in {0, attempt}
      /\ Calm /\ Waiting =>
           /\ csv[s].by = 0 /\ ~p.stop
           /\ p.at \notin {"statistics", "summary", "release"}
      /\ plan.mode = "full" /\ ~MayFail("summary") /\ p.logged
         /\ p.at \in {"release", "gone"} => csv[s].by = attempt
  BY <1>8 DEF SummaryOne, At
<1> HIDE DEF p, n
<1>10. /\ p.at \in {"release", "gone"} =>
            n.at \in {"release", "gone"} /\ n.count = p.count
       /\ p.at = "summary" => n.count = p.count
       /\ n.logged /\ n.at \in {"release", "gone"} => p.logged
  BY <1>1, <1>3 DEF Evolves
<1>11. csv'[s].by = attempt => /\ n.at \in {"release", "gone"}
                               /\ csv'[s].count = n.count
  BY <1>5, <1>8, <1>9, <1>10
<1>12. plan.mode = "full" /\ ~MayFail("summary") /\ n.logged
       /\ n.at \in {"release", "gone"} => csv'[s].by = attempt
  BY <1>3, <1>5, <1>9, <1>10
<1>13. Calm /\ Served(s)' => csv'[s].by \in {0, attempt}
  BY <1>5, <1>7, <1>9
<1>14. Calm /\ Waiting =>
         /\ csv'[s].by = 0 /\ ~n.stop
         /\ n.at \notin {"statistics", "summary", "release"}
  BY <1>5, <1>6, <1>9
<1> QED  BY <1>1, <1>2, <1>4, <1>11, <1>12, <1>13, <1>14 DEF SummaryOne

\* Both together.
LEMMA SummariesProgram ==
  ASSUME Types, Sound, Course, OldStop, Named, Summaries,
         NEW r \in Roles, NEW a \in Attempts, ProgramMoves(r, a)
  PROVE  Summaries'
<1> SUFFICES ASSUME NEW s \in Tunnel
             PROVE  (csv[s].by <= attempt)' /\ (Reached(4)' => SummaryOne(s)')
  BY SummariesNext
<1>1. /\ attempt' = attempt /\ WritesSummary(r, a)
      /\ csv \in [Tunnel -> [by : 0 .. MaxAttempts, count : Nat]]
  BY DEF ProgramMoves, StepFacts, Types
<1>2. csv'[s] = csv[s] \/ csv'[s].by = 0
                       \/ (csv'[s].by = a /\ prog[r][a].at = "summary")
  BY <1>1 DEF WritesSummary, NoSummary
<1>3. prog[r][a].at = "summary" => a <= attempt
  <2>1. a \in Nat /\ attempt \in Nat
    BY DEF Attempts, Types
  <2> QED  BY <2>1 DEF Sound, Programs1, At
<1>4. csv'[s].by <= attempt'
  BY <1>1, <1>2, <1>3, SummariesIs DEF Types
<1>5. ASSUME Reached(4)'
      PROVE  SummaryOne(s)'
  <2>1. Reached(4) /\ attempt \in Attempts
    BY <1>5, ReachedProgram, AttemptIn DEF Reached
  <2>2. CASE s # r \/ a # attempt
    BY <2>1, <2>2, SummariesByOther
  <2>3. CASE s = r /\ a = attempt
    BY <2>1, <2>3, SummariesByOwn
  <2> QED  BY <2>2, <2>3
<1> QED  BY <1>4, <1>5

-----------------------------------------------------------------------------
(* Judged: what a valid attempt was judged by stays what it was *)

\* The verdict, of the state a step leads to.
LEMMA JudgedNext ==
  ASSUME Types, Going, attempt \in Attempts,
         runner'.in # "try", generator' = "timed", sent' = sent,
         \A r \in Roles : prog'[r][attempt].logged,
         \A r \in Tunnel : /\ prog'[r][attempt].at = "gone"
                           /\ prog'[r][attempt].count = prog[r][attempt].count
                           /\ csv'[r] = csv[r]
                           /\ plan.mode = "full" => csv[r].by # 0,
         Fixed => /\ sent = Target
                  /\ plan.mode = "full" => csv["receiver"].count = Target
                  /\ plan.mode # "full" =>
                       /\ prog["receiver"][attempt].count = Target
                       /\ prog'["server"][attempt].count = Target
  PROVE  Judged'
<1>1. plan' = plan /\ attempt' = attempt /\ "receiver" \in Tunnel
  BY DEF Going, Tunnel
<1>2. Fixed' = Fixed /\ Target' = Target
  BY <1>1 DEF Fixed, Target
<1> QED  BY <1>1, <1>2 DEF Judged, At

\* A new attempt has no verdict.
LEMMA JudgedFresh ==
  ASSUME Fresh
  PROVE  Judged'
  BY DEF Fresh, Judged

\* main gives its verdict on the logs and summaries of programs that
\* have gone, and no later step of the runner changes them.
LEMMA JudgedRunner ==
  ASSUME Types, Sound, Course, Logs, Judged, RunnerFacts
  PROVE  Judged'
<1>1. /\ Numbers /\ Going /\ Control /\ Verdict /\ Fates /\ Files
      /\ sent' = sent /\ Somewhere
      /\ Tunnel \subseteq Roles /\ "server" \in Roles
      /\ "receiver" \in Tunnel /\ "gateway" \in Tunnel
  BY NumbersAre, RunnerGoing DEF RunnerFacts, Others, Types, Tunnel, Roles
<1>2. ASSUME NEW r \in Roles, attempt \in Attempts, ~TryAt(StartPlace(r))
      PROVE  /\ prog'[r][attempt].logged = prog[r][attempt].logged
             /\ prog'[r][attempt].count = prog[r][attempt].count
             /\ prog[r][attempt].at = "gone" =>
                  prog'[r][attempt].at = "gone"
  <2>1. /\ Evolves(r, prog[r][attempt], prog'[r][attempt])
        /\ prog'[r][attempt].logged = prog[r][attempt].logged
        /\ prog'[r][attempt].count = prog[r][attempt].count
    BY <1>1, <1>2 DEF Fates, Started
  <2> QED  BY <2>1 DEF Evolves
<1>3. CASE status' # "valid"
  BY <1>3 DEF Judged
<1>4. CASE status = "valid" /\ status' = status
  <2>1. /\ attempt \in Attempts /\ runner.in # "try" /\ generator = "timed"
    BY <1>4, AttemptIn DEF Judged
  <2>2. \A n : ~TryAt(n)
    BY <2>1 DEF TryAt
  <2>3. /\ runner'.in # "try" /\ generator' = "timed" /\ csv' = csv
    BY <1>1, <2>1, <2>2 DEF Control, Onwards, Idle, Files
  <2>4. /\ \A r \in Roles : prog'[r][attempt].logged
        /\ \A r \in Tunnel : /\ prog'[r][attempt].at = "gone"
                             /\ prog'[r][attempt].count = prog[r][attempt].count
    BY <1>1, <1>2, <1>4, <2>1, <2>2 DEF Judged, At
  <2>5. prog'["server"][attempt].count = prog["server"][attempt].count
    BY <1>1, <1>2, <2>1, <2>2
  <2> QED  BY <1>1, <1>4, <2>1, <2>3, <2>4, <2>5, JudgedNext DEF Judged
<1>5. CASE /\ status' = "valid" /\ TryAt(18 + 3 * M)
           /\ Reported /\ Accepted
  <2>1. /\ attempt \in Attempts /\ generator = "timed"
        /\ \A r \in Tunnel : TryPast(CollectPlace(r))
        /\ \A r \in Roles : ~TryAt(StartPlace(r))
        /\ ~TryAt(3) /\ ~TryAt(TrafficPlace)
    BY <1>1, <1>5, AttemptIn
       DEF Course, TryPast, TryAt, Numbers, Tunnel, Roles
  <2>2. /\ runner'.in # "try" /\ generator' = "timed" /\ csv' = csv
    <3>1. /\ generator' = generator
          /\ Onwards \/ runner' = [in |-> "finally", at |-> 1]
      BY <1>1, <2>1 DEF Control
    <3>2. runner'.in = "finally"
      BY <1>1, <1>5, <3>1 DEF Onwards, TryAt, Numbers
    <3> QED  BY <1>1, <2>1, <3>1, <3>2 DEF Files
  <2>3. \A r \in Roles : prog[r][attempt].logged
    BY <1>5 DEF Reported
  <2>4. \A r \in Tunnel : prog[r][attempt].at = "gone"
    BY <1>1, <2>1, <2>3 DEF Logs, At
  <2>5. /\ \A r \in Roles : prog'[r][attempt].logged
        /\ \A r \in Tunnel : /\ prog'[r][attempt].at = "gone"
                             /\ prog'[r][attempt].count = prog[r][attempt].count
    BY <1>1, <1>2, <2>1, <2>3, <2>4
  <2>6. prog'["server"][attempt].count = prog["server"][attempt].count
    BY <1>1, <1>2, <2>1
  <2>7. plan.mode = "full" => \A r \in Tunnel : csv[r].by # 0
    <3>1. DOMAIN csv = Tunnel
      BY DEF Types
    <3> QED  BY <1>5, <3>1 DEF Reported
  <2>8. Fixed => /\ sent = Target
                 /\ plan.mode = "full" => csv["receiver"].count = Target
                 /\ plan.mode # "full" =>
                      /\ prog["receiver"][attempt].count = Target
                      /\ prog["server"][attempt].count = Target
    BY <1>5 DEF Accepted, Delivered, Completed
  <2> QED  BY <1>1, <2>1, <2>2, <2>5, <2>6, <2>7, <2>8, JudgedNext
<1> QED  BY <1>1, <1>3, <1>4, <1>5 DEF Verdict

\* No program, of this attempt or an earlier one, changes what was judged.
LEMMA JudgedProgram ==
  ASSUME Types, Sound, Course, OldStop, Chain, Judged,
         NEW r \in Roles, NEW a \in Attempts, ProgramMoves(r, a)
  PROVE  Judged'
<1>1. /\ Going /\ sent' = sent /\ runner' = runner /\ generator' = generator
      /\ status' = status
      /\ OthersSame(r, a) /\ Passes(r, a) /\ WritesSummary(r, a)
      /\ Evolves(r, prog[r][a], prog'[r][a])
      /\ Tunnel \subseteq Roles /\ "server" \in Roles
      /\ "receiver" \in Tunnel
  BY ProgramGoing DEF ProgramMoves, StepFacts, Tunnel, Roles
<1>2. CASE status # "valid"
  BY <1>1, <1>2 DEF Judged
<1>3. CASE status = "valid"
  <2>1. /\ attempt \in Attempts /\ runner.in # "try" /\ generator = "timed"
        /\ \A s \in Roles : prog[s][attempt].logged
        /\ \A s \in Tunnel : /\ prog[s][attempt].at = "gone"
                             /\ plan.mode = "full" => csv[s].by # 0
    BY <1>3, AttemptIn DEF Judged, At
  <2>2. \A s \in Roles : s # r \/ a # attempt =>
                           prog'[s][attempt] = prog[s][attempt]
    BY <1>1, <2>1 DEF OthersSame
  <2>3. \A s \in Tunnel : prog'[s][attempt] = prog[s][attempt]
    <3>1. ASSUME NEW s \in Tunnel, s = r, a = attempt
          PROVE  prog'[s][attempt] = prog[s][attempt]
      BY <1>1, <2>1, <3>1 DEF Evolves
    <3> QED  BY <1>1, <2>2, <3>1
  <2>4. prog'["server"][attempt].logged
    <3>1. CASE r = "server" /\ a = attempt
      BY <1>1, <2>1, <3>1 DEF Evolves
    <3> QED  BY <1>1, <2>1, <2>2, <3>1
  <2>5. csv' = csv
    <3>1. SUFFICES ASSUME r \in Tunnel, prog[r][a].at = "summary"
                   PROVE  FALSE
      BY <1>1 DEF WritesSummary
    <3>2. a # attempt
      BY <2>1, <3>1
    <3>3. ~Served(r)
      BY <2>1, <3>1, <3>2 DEF OldStop, Reached, Alive, At
    <3> QED  BY <2>1, <3>3 DEF Served
  <2>6. Fixed => /\ sent = Target
                 /\ plan.mode = "full" => csv["receiver"].count = Target
                 /\ plan.mode # "full" =>
                      /\ prog["receiver"][attempt].count = Target
                      /\ prog["server"][attempt].count = Target
    BY <1>3 DEF Judged
  <2>7. ASSUME Fixed, plan.mode # "full"
        PROVE  prog'["server"][attempt].count = prog["server"][attempt].count
    <3>1. Served("receiver")
      BY <1>1, <2>1 DEF Served
    <3>2. prog["server"][attempt].count + out <= prog["receiver"][attempt].count
      BY <2>1, <3>1 DEF Chain
    <3>3. out \in Nat /\ prog["server"][attempt].count \in Nat
      BY <1>1, <2>1, CountsTyped
    <3>4. out = 0
      BY <2>6, <2>7, <3>2, <3>3
    <3>5. CASE r = "server" /\ a = attempt
      BY <1>1, <3>4, <3>5 DEF Passes
    <3> QED  BY <1>1, <2>2, <3>5
  <2>8. \A s \in Roles : prog'[s][attempt].logged
    <3>1. \A s \in Roles : s \in Tunnel \/ s = "server"
      BY DEF Roles, Tunnel
    <3> QED  BY <2>1, <2>3, <2>4, <3>1
  <2>9. \A s \in Tunnel : /\ prog'[s][attempt].at = "gone"
                          /\ prog'[s][attempt].count = prog[s][attempt].count
                          /\ csv'[s] = csv[s]
                          /\ plan.mode = "full" => csv[s].by # 0
    BY <2>1, <2>3, <2>5
  <2>10. Fixed => /\ sent = Target
                  /\ plan.mode = "full" => csv["receiver"].count = Target
                  /\ plan.mode # "full" =>
                       /\ prog["receiver"][attempt].count = Target
                       /\ prog'["server"][attempt].count = Target
    BY <2>6, <2>7
  <2> QED  BY <1>1, <2>1, <2>8, <2>9, <2>10, JudgedNext
<1> QED  BY <1>2, <1>3

\* Nor does a quiet step.
LEMMA JudgedQuiet ==
  ASSUME Types, Sound, Course, Judged, Quiet
  PROVE  Judged'
<1>1. /\ plan' = plan /\ attempt' = attempt /\ prog' = prog /\ csv' = csv
      /\ status' = status
  BY DEF Quiet
<1>2. CASE status # "valid"
  BY <1>1, <1>2 DEF Judged
<1>3. CASE status = "valid"
  <2>1. Watches
    BY <1>3 DEF Quiet, Judged, Dies, Sends, Ends
  <2> QED  BY <1>1, <2>1 DEF Watches, Judged, At, Fixed, Target
<1> QED  BY <1>2, <1>3

-----------------------------------------------------------------------------
(* The theorems *)

\* Nothing has run in an initial state.
LEMMA InitHolds ==
  ASSUME ExpInit
  PROVE  ExpInv
<1>1. /\ plan \in Plans /\ plan.packets \in Nat \ {0}
      /\ plan.attempts \in 1 .. MaxAttempts /\ MaxAttempts \in Nat
  BY ExperimentAssumption DEF ExpInit, ExperimentAssumption
<1>2. NoProgram \in ProgramState
  <2>1. NoFigures \in NoFigures .. MaxAttempts
    BY <1>1 DEF NoFigures
  <2> QED  BY <2>1 DEF NoProgram, ProgramState, StageNames
<1>3. /\ attempt = 0 /\ runner = Idle /\ status = "none"
      /\ \A r \in Roles, a \in Attempts : prog[r][a] = NoProgram
      /\ generator = "off" /\ sent = 0 /\ kills = 0
  BY DEF ExpInit
<1>4. /\ runner.in # "try" /\ runner.in # "finally"
      /\ \A r \in Roles, a \in Attempts :
           /\ At(r, a) = "none" /\ prog[r][a].count = 0
           /\ ~prog[r][a].logged
  BY <1>3 DEF Idle, NoProgram, At
<1>5. Types
  <2>1. prog \in [Roles -> [Attempts -> ProgramState]]
    BY <1>2 DEF ExpInit
  <2>2. pidFile \in [{"gateway", "receiver", "monitor"} -> 0 .. MaxAttempts]
    BY <1>1 DEF ExpInit
  <2>3. csv \in [Tunnel -> [by : 0 .. MaxAttempts, count : Nat]]
    BY <1>1 DEF ExpInit, Tunnel, NoSummary
  <2>4. metricsFile \in NoFile .. MaxAttempts
    BY <1>1 DEF ExpInit, PmInit, NoFile
  <2>5. monitorAt \in [Monitors -> {"none", "shell", "measure", "publish",
                                    "gone"}]
    BY DEF ExpInit, PmInit
  <2>6. sent \in 0 .. Target /\ queue + wire + out <= sent
    BY <1>1 DEF ExpInit, Target
  <2>7. attempt \in 0 .. plan.attempts
    BY <1>1, <1>3
  <2> QED  BY <1>1, <2>1, <2>2, <2>3, <2>4, <2>5, <2>6, <2>7
              DEF ExpInit, Types, Somewhere
<1>6. Sound
  BY <1>3, <1>4 DEF Sound, Programs1, Early
<1>7. Exclusive
  BY <1>4 DEF Exclusive, Held, HeldAt
<1>8. Course
  BY <1>3, <1>4 DEF Course, TryPast, TryAt
<1>9. Cleaning /\ OldStop /\ Named /\ Logs /\ Chain
  BY <1>3, <1>4 DEF Cleaning, OldStop, Named, Logs, Chain, Reached, TryAt, TryPast
<1>10. Stopping
  BY <1>3, <1>4 DEF Stopping, TryPast, Over
<1>11. Summaries
  <2>1. \A r \in Tunnel : csv[r].by = 0
    BY DEF ExpInit, Tunnel, NoSummary
  <2> QED  BY <1>3, <1>4, <2>1 DEF Summaries, Reached
<1>12. Judged
  BY <1>3 DEF Judged
<1> QED  BY <1>5, <1>6, <1>7, <1>8, <1>9, <1>10, <1>11, <1>12 DEF ExpInv

\* The start of an attempt keeps the invariant.
LEMMA FreshHolds ==
  ASSUME ExpInv, Invoke
  PROVE  ExpInv'
<1>1. Fresh /\ Types /\ Sound /\ Exclusive /\ Summaries
  BY InvokeIs DEF ExpInv
<1>2. Types' /\ Sound' /\ Exclusive' /\ Course' /\ Cleaning' /\ OldStop'
  BY <1>1, TypesFresh, SoundFresh, CourseFresh, CleaningFresh, OldStopFresh
<1>3. Named' /\ Stopping' /\ Chain' /\ Logs' /\ Summaries' /\ Judged'
  BY <1>1, NamedFresh, StoppingFresh, ChainFresh, LogsFresh, SummariesFresh,
     JudgedFresh
<1> QED  BY <1>2, <1>3 DEF ExpInv

\* Every step of the runner keeps it.
LEMMA RunnerHolds ==
  ASSUME ExpInv, RunnerStep
  PROVE  ExpInv'
<1>1. /\ Types /\ Sound /\ Exclusive /\ Course /\ Cleaning /\ OldStop
      /\ Named /\ Stopping /\ Chain /\ Logs /\ Summaries /\ Judged
  BY DEF ExpInv
<1>2. RunnerFacts /\ Going
  BY <1>1, RunnerStepIs, RunnerGoing
<1>3. Types' /\ Sound' /\ Exclusive' /\ Course' /\ Cleaning' /\ OldStop'
  BY <1>1, <1>2, TypesRunner, SoundGoes, ExclusiveGoes, CourseRunner,
     CleaningRunner, OldStopRunner
<1>4. Named' /\ Stopping' /\ Chain' /\ Logs' /\ Summaries' /\ Judged'
  BY <1>1, <1>2, NamedRunner, StoppingRunner, ChainRunner, LogsRunner,
     SummariesRunner, JudgedRunner
<1> QED  BY <1>3, <1>4 DEF ExpInv

\* Every step of a program keeps it.
LEMMA ProgramHolds ==
  ASSUME ExpInv, NEW r \in Roles, NEW a \in Attempts, ProgramStep(r, a)
  PROVE  ExpInv'
<1>1. /\ Types /\ Sound /\ Exclusive /\ Course /\ Cleaning /\ OldStop
      /\ Named /\ Stopping /\ Chain /\ Logs /\ Summaries /\ Judged
  BY DEF ExpInv
<1>2. ProgramMoves(r, a) /\ Going /\ (TryAt(2)' => TryAt(2))
  <2>1. ProgramMoves(r, a)
    BY <1>1, ProgramStepIs
  <2> QED  BY <1>1, <2>1, ProgramGoing DEF ProgramMoves, TryAt
<1>3. Types' /\ Sound' /\ Exclusive' /\ Course' /\ Cleaning' /\ OldStop'
  BY <1>1, <1>2, TypesProgram, SoundGoes, ExclusiveGoes, CourseProgram,
     CleaningKept, OldStopProgram
<1>4. Named' /\ Stopping' /\ Chain' /\ Logs' /\ Summaries' /\ Judged'
  BY <1>1, <1>2, NamedProgram, StoppingProgram, ChainProgram, LogsProgram,
     SummariesProgram, JudgedProgram
<1> QED  BY <1>3, <1>4 DEF ExpInv

\* Every quiet step keeps it.
LEMMA QuietHolds ==
  ASSUME ExpInv, Quiet
  PROVE  ExpInv'
<1>1. /\ Types /\ Sound /\ Exclusive /\ Course /\ Cleaning /\ OldStop
      /\ Named /\ Stopping /\ Chain /\ Logs /\ Summaries /\ Judged
  BY DEF ExpInv
<1>2. Going /\ (TryAt(2)' => TryAt(2))
  BY <1>1, QuietGoing DEF Quiet, Dies, Sends, Ends, Watches, TryAt, Idle
<1>3. Types' /\ Sound' /\ Exclusive' /\ Course' /\ Cleaning' /\ OldStop'
  BY <1>1, <1>2, TypesQuiet, SoundGoes, ExclusiveGoes, CourseQuiet,
     CleaningKept, OldStopQuiet
<1>4. Named' /\ Stopping' /\ Chain' /\ Logs' /\ Summaries' /\ Judged'
  BY <1>1, <1>2, NamedQuiet, StoppingQuiet, ChainQuiet, LogsQuiet,
     SummariesQuiet, JudgedQuiet
<1> QED  BY <1>3, <1>4 DEF ExpInv

\* ExpInv holds throughout every experiment: whatever the order in which the
\* runner of main, its programs, the generator and the monitor take their
\* steps, and wherever the runner is killed.
THEOREM ExperimentInvariant == ExpSpec => []ExpInv
<1>1. ExpInit => ExpInv
  BY InitHolds
<1>2. ExpInv /\ [ExpNext]_expVars => ExpInv'
  <2> SUFFICES ASSUME ExpInv, [ExpNext]_expVars
               PROVE  ExpInv'
    OBVIOUS
  <2>0. Types /\ Sound
    BY DEF ExpInv
  <2>1. CASE Invoke
    BY <2>1, FreshHolds
  <2>2. CASE RunnerStep
    BY <2>2, RunnerHolds
  <2>3. CASE RunnerKilled \/ GeneratorStep
    BY <2>0, <2>3, QuietIs, QuietHolds
  <2>4. ASSUME NEW r \in Roles, NEW a \in Attempts, ProgramStep(r, a)
        PROVE  ExpInv'
    BY <2>4, ProgramHolds
  <2>5. ASSUME NEW m \in Monitors, MonitorStep(m)
        PROVE  ExpInv'
    BY <2>0, <2>5, QuietIs, QuietHolds
  <2>6. CASE UNCHANGED expVars
    BY <2>0, <2>6, QuietIs, QuietHolds
  <2> QED  BY <2>1, <2>2, <2>3, <2>4, <2>5, <2>6 DEF ExpNext
<1> QED  BY <1>1, <1>2, PTL DEF ExpSpec

\* The types, and that no two programs ever hold the same queue or port: the
\* clean-up and the failing mq_open and bind keep attempts apart.
THEOREM ExperimentTypes == ExpSpec => []ExpTypeOK
<1>1. ExpInv => ExpTypeOK
  <2> SUFFICES ASSUME ExpInv
               PROVE  ExpTypeOK
    OBVIOUS
  <2>1. Types /\ Sound /\ Exclusive
    BY DEF ExpInv
  <2>2. /\ plan \in Plans /\ plan.packets \in Nat
        /\ plan.attempts \in 1 .. MaxAttempts /\ MaxAttempts \in Nat
    BY <2>1, ExperimentAssumption DEF Types, ExperimentAssumption
  <2>3. attempt \in 0 .. MaxAttempts
    BY <2>1, <2>2 DEF Types
  <2>4. runner = Idle \/ runner.in \in {"try", "finally"}
    BY <2>1 DEF Types, Somewhere
  <2>5. \A r \in Roles : \A a, b \in Attempts :
          Holds(r, a) /\ Holds(r, b) => a = b
    BY <2>1, <2>2, HoldsIs DEF Exclusive
  <2>6. queue + wire + out \in 0 .. sent
    <3>1. /\ queue \in Nat /\ wire \in Nat /\ out \in Nat
          /\ queue + wire + out <= sent /\ sent \in 0 .. Target
          /\ Target \in Nat
      BY <2>1, <2>2 DEF Types, Target
    <3> QED  BY <3>1
  <2> QED  BY <2>1, <2>3, <2>4, <2>5, <2>6 DEF ExpTypeOK, Types
<1> QED  BY <1>1, ExperimentInvariant, PTL

\* A runner that came to the end of an attempt whose traffic was sent and
\* timed, and was not killed, left none of its programs with a queue or a
\* port: the body and the finally of main have both signalled them.
THEOREM ExperimentLeavesNothing == ExpSpec => []NothingLeftRunning
<1>1. ExpInv => NothingLeftRunning
  <2> SUFFICES ASSUME ExpInv, runner = Idle, generator = "timed", kills = 0,
                      NEW r \in Roles
               PROVE  ~Holds(r, attempt)
    BY DEF NothingLeftRunning
  <2>1. Dead(r)
    BY DEF ExpInv, Stopping
  <2> QED  BY <2>1 DEF Dead, Holds
<1> QED  BY <1>1, ExperimentInvariant, PTL

\* An attempt that main calls valid is what it claims: its gateway
\* and receiver have ended, their summaries are this attempt's own, no program
\* counted more than the one before it, and a fixed number of packets all
\* arrived.
THEOREM ExperimentIsHonest == ExpSpec => []ValidIsHonest
<1>1. ExpInv => ValidIsHonest
  <2> SUFFICES ASSUME ExpInv, status = "valid"
               PROVE  /\ \A r \in {"gateway", "receiver"} :
                           /\ ~Alive(r, attempt) \/ Ending(r, attempt)
                           /\ plan.mode = "full" /\ ~Mistakable =>
                                csv[r] = [by |-> attempt,
                                          count |-> prog[r][attempt].count]
                      /\ prog["gateway"][attempt].count <= sent
                      /\ prog["receiver"][attempt].count
                           <= prog["gateway"][attempt].count
                      /\ prog["server"][attempt].count
                           <= prog["receiver"][attempt].count
                      /\ Fixed /\ ~Mistakable =>
                           /\ prog["receiver"][attempt].count = Target
                           /\ plan.mode = "functional" =>
                                prog["server"][attempt].count = Target
    BY DEF ValidIsHonest
  <2>0. /\ Types /\ Sound /\ Course /\ Chain /\ Summaries /\ Judged
        /\ "gateway" \in Roles /\ "receiver" \in Roles /\ "server" \in Roles
        /\ Tunnel = {"gateway", "receiver"}
    BY DEF ExpInv, Roles, Tunnel
  <2>1. /\ attempt \in Attempts /\ generator = "timed" /\ Reached(4)
        /\ \A r \in Roles : prog[r][attempt].logged
        /\ \A r \in Tunnel : /\ At(r, attempt) = "gone"
                             /\ plan.mode = "full" => csv[r].by # 0
    BY <2>0, AttemptIn DEF Judged, Reached
  <2>2. Served("gateway") /\ Served("receiver")
    BY <2>0, <2>1 DEF Served
  <2>3. ASSUME NEW r \in Tunnel, plan.mode = "full", ~Mistakable
        PROVE  csv[r] = [by |-> attempt, count |-> prog[r][attempt].count]
    <3>1. SummaryOne(r) /\ csv[r].by <= attempt
      BY <2>0, <2>1, SummariesIs
    <3>2. csv[r].by # 0 /\ Served(r)
      BY <2>0, <2>1, <2>2, <2>3
    <3>3. csv[r] \in [by : 0 .. MaxAttempts, count : Nat]
      BY <2>0 DEF Types
    <3>4. csv[r].by = attempt
      <4>1. CASE ~MayFail("summary")
        BY <2>0, <2>1, <2>3, <3>1, <4>1 DEF SummaryOne
      <4>2. CASE ~MayFail("receive")
        BY <3>1, <3>2, <4>2 DEF SummaryOne, Calm
      <4>3. CASE ~(attempt > 1)
        <5>1. attempt = 1 /\ MaxAttempts \in Nat
          BY <2>1, <4>3, ExperimentAssumption
             DEF Attempts, ExperimentAssumption
        <5> QED  BY <3>1, <3>2, <3>3, <5>1
      <4> QED  BY <2>3, <4>1, <4>2, <4>3 DEF Mistakable
    <3>5. csv[r].count = prog[r][attempt].count
      BY <3>1, <3>4 DEF SummaryOne
    <3> QED  BY <3>3, <3>4, <3>5
  <2>4. /\ prog["gateway"][attempt].count <= sent
        /\ prog["receiver"][attempt].count <= prog["gateway"][attempt].count
        /\ prog["server"][attempt].count <= prog["receiver"][attempt].count
    <3>1. /\ prog["gateway"][attempt].count + queue <= sent
          /\ prog["receiver"][attempt].count + wire
               <= prog["gateway"][attempt].count
          /\ prog["server"][attempt].count + out
               <= prog["receiver"][attempt].count
      BY <2>0, <2>1, <2>2 DEF Chain
    <3>2. /\ \A r \in Roles : prog[r][attempt].count \in Nat
          /\ sent \in Nat /\ queue \in Nat /\ wire \in Nat /\ out \in Nat
      BY <2>0, <2>1, CountsTyped
    <3> QED  BY <2>0, <3>1, <3>2
  <2>5. ASSUME Fixed, ~Mistakable
        PROVE  /\ prog["receiver"][attempt].count = Target
               /\ plan.mode = "functional" =>
                    prog["server"][attempt].count = Target
    <3>1. CASE plan.mode = "full"
      <4>1. csv["receiver"].count = Target
        BY <2>0, <2>5, <3>1 DEF Judged
      <4>2. csv["receiver"].count = prog["receiver"][attempt].count
        BY <2>0, <2>3, <2>5, <3>1
      <4> QED  BY <3>1, <4>1, <4>2
    <3>2. CASE plan.mode # "full"
      BY <2>0, <2>5, <3>2 DEF Judged
    <3> QED  BY <3>1, <3>2
  <2> QED  BY <2>0, <2>1, <2>3, <2>4, <2>5 DEF Alive
<1> QED  BY <1>1, ExperimentInvariant, PTL

\* The gateway never takes up a metrics file that was half written: the
\* monitor's rename publishes whole files only.
THEOREM ExperimentMetrics == ExpSpec => MetricsNotTorn
<1>1. ExpInv /\ [ExpNext]_expVars =>
        [\A a \in Attempts :
           LET old == prog["gateway"][a].figures
               new == prog'["gateway"][a].figures
           IN  new # old /\ prog'["gateway"][a].at # "none" =>
                 new \in 0 .. MaxAttempts]_expVars
  <2> SUFFICES ASSUME ExpInv, ExpNext, NEW a \in Attempts,
                      prog'["gateway"][a].figures # prog["gateway"][a].figures,
                      prog'["gateway"][a].at # "none"
               PROVE  prog'["gateway"][a].figures \in 0 .. MaxAttempts
    OBVIOUS
  <2>0. /\ Types /\ Sound /\ Course /\ "gateway" \in Roles
    BY DEF ExpInv, Roles
  <2> DEFINE p == prog["gateway"][a]  n == prog'["gateway"][a]
  <2>1. CASE Invoke
    <3>1. Begins(p, n)
      BY <2>0, <2>1, InvokeIs DEF Fresh
    <3>2. n.at # "none" /\ n.figures # p.figures
      OBVIOUS
    <3> HIDE DEF p, n
    <3> QED  BY <3>1, <3>2 DEF Begins, NoProgram
  <2>2. CASE Going
    <3>1. CASE Started("gateway", a)
      <4>1. At("gateway", a) = "none"
        BY <2>0, <3>1, NumbersAre DEF Started, Course, TryAt, Numbers
      <4>2. p = NoProgram
        BY <2>0, <4>1 DEF Sound, Programs1
      <4>3. n.figures = NoFigures /\ p.figures = NoFigures
        BY <3>1, <4>2 DEF Started, NoProgram
      <4> QED  BY <4>3
    <3>2. CASE Evolves("gateway", p, n)
      <4>1. n.figures # p.figures
        OBVIOUS
      <4> HIDE DEF p, n
      <4>2. n.figures \in 0 .. MaxAttempts
        BY <3>2, <4>1 DEF Evolves
      <4> QED  BY <4>2 DEF n
    <3> QED  BY <2>0, <2>2, <3>1, <3>2 DEF Going, Evolution
  <2>3. Invoke \/ Going
    <3>1. RunnerStep => Going
      BY <2>0, RunnerStepIs, RunnerGoing
    <3>2. \A r \in Roles, b \in Attempts : ProgramStep(r, b) => Going
      BY <2>0, ProgramStepIs, ProgramGoing
    <3>3. /\ GeneratorStep \/ RunnerKilled => Going
          /\ \A m \in Monitors : MonitorStep(m) => Going
      BY <2>0, QuietIs, QuietGoing
    <3> QED  BY <3>1, <3>2, <3>3 DEF ExpNext
  <2> QED  BY <2>1, <2>2, <2>3
<1> QED  BY <1>1, ExperimentInvariant, PTL DEF ExpSpec, MetricsNotTorn
=============================================================================
