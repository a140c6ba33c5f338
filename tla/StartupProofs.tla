--------------------------- MODULE StartupProofs ---------------------------
(***************************************************************************)
(* Proofs about Startup.tla: what Open hands over, the TLS policy of       *)
(* SSLMode and the mutual authentication of SCRAM hold for any number of   *)
(* calls of Open, whatever the server answers and whenever it dies.        *)
(*                                                                         *)
(* The inductive invariant says that client and server take turns.  While  *)
(* a message of the client is unanswered nothing of the server is unread,  *)
(* and of an answer only the last message may make the client send, fail   *)
(* or return; so whatever the client does next, it does on an empty wire.  *)
(***************************************************************************)
EXTENDS Startup, SequenceTheorems, TLAPS

\* Open holds a connection, or has handed it over.
Connected == pc \in {"sslreply", "handshake", "auth", "client"}

\* The messages startup reads on from.
Passing == {"ignored", "key", "final"}

\* The socket is open exactly while Open or the Client holds it; one side
\* speaks at a time.
Turns ==
    /\ Connected <=> sock = "open"
    /\ Connected =>
        /\ up = <<>> \/ (up = <<up[1]>> /\ inbox = <<>>)
        /\ inbox \in Seq(ToSet(inbox))
        /\ \A i \in 1..Len(inbox) : i < Len(inbox) => inbox[i].type \in Passing
    /\ pc \in {"handshake", "client"} => inbox = <<>> /\ up = <<>>
    /\ pc = "client" => deadline = "none"

\* A key is the one of this connection.
Keys ==
    Connected => /\ pid \in {0, attempt}
                 /\ \A i \in 1..Len(inbox) : inbox[i].type = "key" => inbox[i].pid = attempt

\* What the negotiation still owes to SSLMode.
Policy ==
    /\ TLSPolicyHolds
    /\ pc \in {"sslreply", "handshake"} => ~NoTLS(cfg)
    /\ pc = "auth" /\ MustEncrypt(cfg.mode) => secure

\* The signature a server that holds the password p can make in this call.
SignedBy(p) == Signature("server", p, <<attempt, "srv">>, "salt")

\* A signature the server may send: an empty one, its own of this exchange, or
\* one of another exchange.
FromPeer(s) == s = <<>> \/ s = SignedBy(peer.password) \/ s[3] # <<attempt, "srv">>

\* The SCRAM exchange: its nonce is the one of this call, the signature that
\* is expected and the one that came are over this exchange, and when the
\* server has answered the proof, no ReadyForQuery comes before a server-final
\* was verified.
Exchange ==
    /\ scram = [nonce |-> scram.nonce, sig |-> scram.sig]
    /\ pc \in {"sslreply", "handshake"} => scram = NoScram
    /\ proven # <<>> => proven = SignedBy(cfg.password) /\ peer.password = cfg.password
    /\ Connected /\ srv = "fresh" => scram = NoScram
    /\ Connected /\ srv = "fresh" => \A i \in 1..Len(inbox) : inbox[i].type # "sasl"
    /\ Connected /\ up # <<>> /\ up[1].type \in {"startup", "SSLRequest", "password", "md5"}
         => scram = NoScram
    /\ Connected /\ up # <<>> /\ up[1].type = "proof" => scram.sig # <<>>
    /\ Connected /\ finished => scram.sig # <<>>
    /\ Connected => \A i \in 1..Len(inbox) :
         inbox[i].type = "final" => FromPeer(inbox[i].sig)
    /\ Connected /\ scram # NoScram =>
        /\ scram.nonce = attempt
        /\ scram.sig \in {<<>>, SignedBy(cfg.password)}
        /\ \A i \in 1..Len(inbox) : inbox[i].type \notin {"password", "md5", "sasl"}
    /\ Connected => \A i \in 1..Len(inbox) : inbox[i].type = "continue" =>
        inbox[i].nonce = <<inbox[i].nonce[1], "srv">> /\ inbox[i].salt \in {"salt", ""}
    /\ pc = "auth" /\ finished /\ proven = <<>> =>
        \A i \in 1..Len(inbox) : inbox[i].type = "ready" => inbox[1].type = "final"
    /\ pc = "client" /\ finished => proven # <<>>

StartupInv == TypeOK /\ Turns /\ Keys /\ Policy /\ Exchange

-----------------------------------------------------------------------------
(* Sequences of messages *)

(* The positions of one message.                                           *)
LEMMA OneIndex == \A i \in 1..1 : i = 1 /\ ~(i < 1)
OBVIOUS

(* One message, sent into an empty buffer and taken out again.             *)
LEMMA OneMessage ==
    ASSUME NEW m
    PROVE  /\ Append(<<>>, m) = <<m>> /\ Head(<<m>>) = m /\ Tail(<<m>>) = <<>>
           /\ <<m>>[1] = m /\ Len(<<m>>) = 1 /\ <<m>> # <<>>
           /\ <<m>> \in Seq({m})
<1>1. <<>> \in Seq({m}) /\ <<m>> \in Seq({m}) /\ m \in {m}
  OBVIOUS
<1>2. Append(<<>>, m) = <<m>>
  BY <1>1
<1>3. Tail(<<m>>) = <<>>
  BY <1>1
<1> QED BY <1>1, <1>2, <1>3

(* A sequence is one over its own elements.                                *)
LEMMA OwnElements ==
    ASSUME NEW S, NEW s \in Seq(S)
    PROVE  s \in Seq(ToSet(s)) /\ Len(s) \in Nat
<1>1. Len(s) \in Nat /\ DOMAIN s = 1..Len(s)
  OBVIOUS
<1>2. \A i \in 1..Len(s) : s[i] \in ToSet(s)
  BY <1>1 DEF ToSet
<1> QED BY <1>1, <1>2, SeqDef

(* Reading the first message leaves the others, one place further on.      *)
LEMMA TakeFacts ==
    ASSUME NEW S, NEW s \in Seq(S), s # <<>>
    PROVE  /\ Tail(s) \in Seq(ToSet(Tail(s))) /\ Len(s) \in Nat /\ Len(s) >= 1
           /\ Len(Tail(s)) = Len(s) - 1 /\ Head(s) = s[1] /\ 1 \in 1..Len(s)
           /\ \A i \in 1..Len(Tail(s)) : i + 1 \in 1..Len(s) /\ Tail(s)[i] = s[i + 1]
           /\ Len(s) = 1 => Tail(s) = <<>>
<1>1. Tail(s) \in Seq(S) /\ Len(s) \in Nat /\ Len(s) >= 1 /\ Len(Tail(s)) = Len(s) - 1
  BY EmptySeq
<1>2. Tail(s) \in Seq(ToSet(Tail(s)))
  BY <1>1, OwnElements
<1>3. \A i \in 1..Len(Tail(s)) : i + 1 \in 1..Len(s) /\ Tail(s)[i] = s[i + 1]
  BY <1>1
<1>4. ASSUME Len(s) = 1 PROVE Tail(s) = <<>>
  <2>1. Len(Tail(s)) = 0
    BY <1>1, <1>4
  <2> QED BY <2>1, <1>1, EmptySeq
<1> QED BY <1>1, <1>2, <1>3, <1>4

(* What a connection that breaks still delivers is a beginning of what was *)
(* sent.                                                                   *)
LEMMA CutShort ==
    ASSUME NEW S, NEW s \in Seq(S), NEW n \in 0..Len(s)
    PROVE  LET t == SubSeq(s, 1, n) IN
           /\ t \in Seq(ToSet(t)) /\ Len(t) = n /\ Len(s) \in Nat
           /\ \A i \in 1..Len(t) : i \in 1..Len(s) /\ t[i] = s[i]
           /\ s = <<>> => t = <<>>
<1> DEFINE t == SubSeq(s, 1, n)
<1>1. Len(s) \in Nat /\ n \in Nat /\ n <= Len(s)
  OBVIOUS
<1>2. t \in Seq(S) /\ Len(t) = n /\ \A i \in 1..n : t[i] = s[i]
  BY <1>1
<1>3. t \in Seq(ToSet(t))
  BY <1>2, OwnElements
<1>4. s = <<>> => t = <<>>
  BY <1>1, <1>2, EmptySeq
<1> QED BY <1>1, <1>2, <1>3, <1>4

-----------------------------------------------------------------------------
(* The answers of the server *)

\* What every answer has in common: all but its last message is one startup
\* reads on from, a key is the one of this connection, and a server-first has
\* a nonce and a salt of the server's form.
Script(s) ==
    /\ s \in Seq(ToSet(s))
    /\ \A i \in 1..Len(s) : i < Len(s) => s[i].type \in Passing
    /\ \A i \in 1..Len(s) : s[i].type = "key" => s[i].pid = attempt
    /\ \A i \in 1..Len(s) : s[i].type = "continue" =>
         s[i].nonce = <<s[i].nonce[1], "srv">> /\ s[i].salt \in {"salt", ""}
    /\ \A i \in 1..Len(s) : s[i].type = "final" => FromPeer(s[i].sig)

(* An answer of a single message.                                          *)
LEMMA SingleScript ==
    ASSUME NEW m, m.type # "key",
           m.type = "continue" => m.nonce = <<m.nonce[1], "srv">> /\ m.salt \in {"salt", ""},
           m.type = "final" => FromPeer(m.sig)
    PROVE  Script(<<m>>)
<1> DEFINE s == <<m>>
<1>1. s \in Seq({m}) /\ Len(s) = 1 /\ s[1] = m
  BY OneMessage
<1>2. s \in Seq(ToSet(s))
  BY <1>1, OwnElements
<1> HIDE DEF s
<1>3. \A i \in 1..Len(s) : i = 1 /\ s[i] = m /\ ~(i < Len(s))
  BY <1>1, OneIndex, Zenon
<1>4. Script(s)
  BY <1>2, <1>3 DEF Script
<1> QED BY <1>4 DEF s

(* The messages after authentication.                                      *)
LEMMA WelcomeScript ==
    ASSUME NEW ms \in Welcomes
    PROVE  /\ Script(ms) /\ \A i \in 1..Len(ms) : ms[i].type \in {"ignored", "key", "ready"}
           /\ ms[1].type # "final"
<1> DEFINE key == [type |-> "key", pid |-> attempt]
           S == {Msg("ignored"), key, Msg("ready")}
<1>1. /\ Msg("ignored").type = "ignored" /\ Msg("ready").type = "ready"
      /\ key.type = "key" /\ key.pid = attempt
  BY DEF Msg
<1>2. CASE ms = <<Msg("ignored"), Msg("ignored"), key, Msg("ready")>>
  <2>1. /\ ms \in Seq(S) /\ Len(ms) = 4 /\ ms[1] = Msg("ignored") /\ ms[2] = Msg("ignored")
        /\ ms[3] = key /\ ms[4] = Msg("ready")
    BY <1>2
  <2>2. ms \in Seq(ToSet(ms))
    BY <2>1, OwnElements
  <2>3. \A i \in 1..Len(ms) : i = 1 \/ i = 2 \/ i = 3 \/ i = 4
    BY <2>1
  <2>4. \A i \in 1..Len(ms) : /\ ms[i].type \in {"ignored", "key", "ready"}
                              /\ i < Len(ms) => ms[i].type \in Passing
                              /\ ms[i].type = "key" => ms[i].pid = attempt
    BY <1>1, <2>1, <2>3 DEF Passing
  <2>5. ms[1].type # "final"
    BY <1>1, <2>1
  <2> QED BY <2>2, <2>4, <2>5 DEF Script
<1>3. CASE ms = <<Msg("ignored"), Msg("ready")>>
  <2>1. /\ ms \in Seq(S) /\ Len(ms) = 2 /\ ms[1] = Msg("ignored") /\ ms[2] = Msg("ready")
    BY <1>3
  <2>2. ms \in Seq(ToSet(ms))
    BY <2>1, OwnElements
  <2>3. \A i \in 1..Len(ms) : i = 1 \/ i = 2
    BY <2>1
  <2>4. \A i \in 1..Len(ms) : /\ ms[i].type \in {"ignored", "key", "ready"}
                              /\ i < Len(ms) => ms[i].type \in Passing
                              /\ ms[i].type # "key"
    BY <1>1, <2>1, <2>3 DEF Passing
  <2>5. ms[1].type # "final"
    BY <1>1, <2>1
  <2> QED BY <2>2, <2>4, <2>5 DEF Script
<1> QED BY <1>2, <1>3 DEF Welcomes

(* A rejection.                                                            *)
LEMMA RejectScript ==
    ASSUME NEW ms \in Rejections
    PROVE  /\ Script(ms) /\ \A i \in 1..Len(ms) : ms[i].type \in {"ignored", "error"}
           /\ ms[1].type # "final"
<1> DEFINE S == {Msg("ignored"), Msg("error")}
<1>1. Msg("ignored").type = "ignored" /\ Msg("error").type = "error"
  BY DEF Msg
<1>2. CASE ms = <<Msg("ignored"), Msg("error")>>
  <2>1. ms \in Seq(S) /\ Len(ms) = 2 /\ ms[1] = Msg("ignored") /\ ms[2] = Msg("error")
    BY <1>2
  <2>2. ms \in Seq(ToSet(ms))
    BY <2>1, OwnElements
  <2>3. \A i \in 1..Len(ms) : i = 1 \/ i = 2
    BY <2>1
  <2>4. \A i \in 1..Len(ms) : /\ ms[i].type \in {"ignored", "error"}
                              /\ i < Len(ms) => ms[i].type \in Passing
    BY <1>1, <2>1, <2>3 DEF Passing
  <2>5. ms[1].type # "final"
    BY <1>1, <2>1
  <2> QED BY <2>2, <2>4, <2>5 DEF Script
<1>3. CASE ms = <<Msg("error")>>
  <2>1. Script(ms)
    BY <1>1, <1>3, SingleScript
  <2>2. Len(ms) = 1 /\ ms[1] = Msg("error")
    BY <1>3, OneMessage
  <2> QED BY <1>1, <2>1, <2>2
<1> QED BY <1>2, <1>3 DEF Rejections

(* A server-final in front of other messages.                              *)
LEMMA FinalScript ==
    ASSUME NEW ms, Script(ms), NEW f, f.type = "final", FromPeer(f.sig)
    PROVE  LET s == <<f>> \o ms IN
           /\ Script(s)
           /\ \A i \in 1..Len(s) :
                s[i].type = "final" \/ \E j \in 1..Len(ms) : s[i].type = ms[j].type
<1> DEFINE s == <<f>> \o ms
<1>2. PICK S : ms \in Seq(S) /\ f \in S
  <2>1. ms \in Seq(ToSet(ms) \cup {f})
    <3>1. ms \in Seq(ToSet(ms))
      BY DEF Script
    <3> QED BY <3>1, SeqDef
  <2> QED BY <2>1
<1>3. /\ s \in Seq(S) /\ Len(ms) \in Nat /\ Len(s) = Len(ms) + 1 /\ s[1] = f
      /\ \A i \in 1..Len(s) : i # 1 => i - 1 \in 1..Len(ms) /\ s[i] = ms[i - 1]
  <2>1. <<f>> \in Seq(S) /\ Len(<<f>>) = 1 /\ <<f>>[1] = f
    BY <1>2, OneMessage
  <2>2. Len(ms) \in Nat
    BY <1>2
  <2>3. s \in Seq(S) /\ Len(s) = Len(ms) + 1
    BY <1>2, <2>1, <2>2, ConcatProperties
  <2>4. \A i \in 1..Len(s) : s[i] = IF i <= 1 THEN <<f>>[i] ELSE ms[i - 1]
    BY <1>2, <2>1, <2>2, <2>3, ConcatProperties
  <2> QED BY <2>1, <2>2, <2>3, <2>4
<1>4. s \in Seq(ToSet(s)) /\ Len(s) \in Nat
  BY <1>3, OwnElements
<1> HIDE DEF s
<1>5. ASSUME NEW i \in 1..Len(s)
      PROVE  \/ s[i] = f
             \/ /\ i - 1 \in 1..Len(ms) /\ s[i] = ms[i - 1]
                /\ i < Len(s) => i - 1 < Len(ms)
  BY <1>3
<1>6. \A i \in 1..Len(s) : i < Len(s) => s[i].type \in Passing
  BY <1>5 DEF Script, Passing
<1>7. \A i \in 1..Len(s) : s[i].type = "key" => s[i].pid = attempt
  BY <1>5 DEF Script
<1>8. \A i \in 1..Len(s) : s[i].type = "continue" =>
         s[i].nonce = <<s[i].nonce[1], "srv">> /\ s[i].salt \in {"salt", ""}
  <2> SUFFICES ASSUME NEW i \in 1..Len(s), s[i].type = "continue"
               PROVE  s[i].nonce = <<s[i].nonce[1], "srv">> /\ s[i].salt \in {"salt", ""}
    OBVIOUS
  <2>1. i - 1 \in 1..Len(ms) /\ s[i] = ms[i - 1]
    BY <1>5
  <2> QED BY <2>1, Zenon DEF Script
<1>9. \A i \in 1..Len(s) : s[i].type = "final" => FromPeer(s[i].sig)
  BY <1>5, Zenon DEF Script
<1>10. Script(s)
  BY <1>4, <1>6, <1>7, <1>8, <1>9 DEF Script
<1>11. \A i \in 1..Len(s) :
          s[i].type = "final" \/ \E j \in 1..Len(ms) : s[i].type = ms[j].type
  BY <1>5, Zenon
<1> QED BY <1>10, <1>11 DEF s

(* Any messages behind none or one of the server-finals of Finals.         *)
LEMMA FinalsScript ==
    ASSUME NEW f \in Finals, NEW ms, Script(ms), attempt \in Nat
    PROVE  /\ Script(f \o ms)
           /\ \A i \in 1..Len(f \o ms) :
                (f \o ms)[i].type = "final" \/ \E j \in 1..Len(ms) : (f \o ms)[i].type = ms[j].type
<1>1. CASE f = <<>>
  <2>1. f \o ms = ms
    BY <1>1, ConcatEmptySeq DEF Script
  <2>2. \A i \in 1..Len(ms) : \E j \in 1..Len(ms) : ms[i].type = ms[j].type
    OBVIOUS
  <2> QED BY <2>1, <2>2
<1>2. ASSUME NEW sig, FromPeer(sig), f = <<[type |-> "final", sig |-> sig]>>
      PROVE  /\ Script(f \o ms)
             /\ \A i \in 1..Len(f \o ms) :
                  (f \o ms)[i].type = "final" \/ \E j \in 1..Len(ms) : (f \o ms)[i].type = ms[j].type
  <2> DEFINE g == [type |-> "final", sig |-> sig]
  <2>1. g.type = "final" /\ g.sig = sig
    OBVIOUS
  <2> HIDE DEF g
  <2>2. f = <<g>> /\ FromPeer(g.sig)
    BY <1>2, <2>1 DEF g
  <2> QED BY <2>1, <2>2, FinalScript
<1>3. FromPeer(<<>>) /\ FromPeer(SignedBy(peer.password))
  BY DEF FromPeer
<1>4. FromPeer(Signature("server", cfg.password, <<attempt - 1, "srv">>, "salt"))
  BY DEF FromPeer, Signature
<1> QED BY <1>1, <1>2, <1>3, <1>4 DEF Finals, SignedBy

-----------------------------------------------------------------------------
(* Steps that many actions share *)

(* An error return of Open.                                                *)
LEMMA FailStep ==
    ASSUME StartupInv, NEW e, e # "none", Fail(e)
    PROVE  StartupInv'
<1>1. /\ pc' = "error" /\ err' = e /\ sock' = "closed"
      /\ UNCHANGED <<attempt, cfg, scram, pid, proven, deadline, secure, clear, peer, srv, finished>>
  BY DEF Fail, serverVars
<1>2. TypeOK'
  BY <1>1 DEF StartupInv, TypeOK
<1>3. Turns' /\ Keys'
  BY <1>1 DEF Turns, Keys, Connected
<1>4. Policy'
  BY <1>1 DEF StartupInv, Policy, TLSPolicyHolds, NoTLS, MustEncrypt
<1>5. Exchange'
  BY <1>1 DEF StartupInv, Exchange, Connected, SignedBy, FromPeer
<1> QED BY <1>2, <1>3, <1>4, <1>5 DEF StartupInv

(* Reading a message: nothing of the client is on its way, and a message   *)
(* startup does not read on from was the last one.                         *)
LEMMA TakeStep ==
    ASSUME StartupInv, Connected, Take
    PROVE  /\ up = <<>> /\ inbox' \in Seq(ToSet(inbox')) /\ 1 \in 1..Len(inbox)
           /\ Head(inbox) = inbox[1] /\ Len(inbox') \in Nat
           /\ \A i \in 1..Len(inbox') : i + 1 \in 1..Len(inbox) /\ inbox'[i] = inbox[i + 1]
           /\ \A i \in 1..Len(inbox') : i < Len(inbox') => inbox'[i].type \in Passing
           /\ Head(inbox).type \notin Passing => inbox' = <<>>
<1>1. inbox # <<>> /\ inbox' = Tail(inbox) /\ inbox \in Seq(ToSet(inbox)) /\ up = <<>>
  BY DEF Take, StartupInv, Turns
<1>2. /\ inbox' \in Seq(ToSet(inbox')) /\ Len(inbox) \in Nat /\ Len(inbox) >= 1
      /\ Len(inbox') = Len(inbox) - 1 /\ Head(inbox) = inbox[1] /\ 1 \in 1..Len(inbox)
      /\ \A i \in 1..Len(inbox') : i + 1 \in 1..Len(inbox) /\ inbox'[i] = inbox[i + 1]
      /\ Len(inbox) = 1 => inbox' = <<>>
  BY <1>1, TakeFacts
<1>3. \A i \in 1..Len(inbox) : i < Len(inbox) => inbox[i].type \in Passing
  BY DEF StartupInv, Turns
<1>4. \A i \in 1..Len(inbox') : i < Len(inbox') => i + 1 < Len(inbox)
  BY <1>2
<1>5. \A i \in 1..Len(inbox') : i < Len(inbox') => inbox'[i].type \in Passing
  BY <1>2, <1>3, <1>4
<1>6. inbox[1].type \notin Passing => Len(inbox) = 1
  BY <1>2, <1>3
<1> QED BY <1>1, <1>2, <1>5, <1>6

(* The server answers the message of the client.                           *)
LEMMA ServeStep ==
    ASSUME StartupInv, NEW t, Serve(t), NEW s, NEW next, Answer(s, next), Script(s),
           next \in {"fresh", "tls", "auth", "proof", "ready", "gone"},
           next = "fresh" => scram = NoScram /\ \A i \in 1..Len(s) : s[i].type # "sasl",
           scram # NoScram =>
             \A i \in 1..Len(s) : s[i].type \notin {"password", "md5", "sasl"},
           srv = "proof" /\ s[1].type = "final" => scram.sig # <<>>
    PROVE  StartupInv'
<1>1. /\ UNCHANGED <<pc, err, attempt, cfg, scram, pid, proven, sock, deadline, secure, clear, peer>>
      /\ sock = "open" /\ up # <<>> /\ up' = Tail(up) /\ inbox' = inbox \o s /\ srv' = next
      /\ finished' = (srv = "proof" /\ s[1].type = "final")
  BY DEF Serve, Answer, clientVars, netVars
<1>2. Connected /\ Connected' /\ inbox = <<>> /\ up = <<up[1]>> /\ pc \notin {"handshake", "client"}
  BY <1>1 DEF StartupInv, Turns, Connected
<1>3. up' = <<>>
  BY <1>1, <1>2, OneMessage
<1>4. inbox' = s
  <2>1. s \in Seq(ToSet(s)) /\ inbox' = <<>> \o s
    BY <1>1, <1>2 DEF Script
  <2> QED BY <2>1, ConcatEmptySeq
<1>5. TypeOK'
  BY <1>1 DEF StartupInv, TypeOK
<1>6. Turns'
  BY <1>1, <1>2, <1>3, <1>4 DEF StartupInv, Turns, Script
<1>7. Keys'
  BY <1>1, <1>2, <1>4 DEF StartupInv, Keys, Script
<1>8. Policy'
  BY <1>1 DEF StartupInv, Policy, TLSPolicyHolds, NoTLS, MustEncrypt
<1>9. Exchange'
  <2>1. finished' => s[1].type = "final" /\ scram.sig # <<>>
    BY <1>1, Zenon
  <2> QED BY <1>1, <1>2, <1>3, <1>4, <2>1 DEF StartupInv, Exchange, Script, SignedBy, FromPeer
<1> QED BY <1>5, <1>6, <1>7, <1>8, <1>9 DEF StartupInv

(* The client answers the last message of the server.                      *)
LEMMA SendStep ==
    ASSUME StartupInv, pc \in {"sslreply", "auth"}, Take, Head(inbox).type \notin Passing,
           NEW m, Send(m), pc' = "auth", UNCHANGED <<err, attempt, cfg, pid, proven, sock,
             deadline, secure, srv, peer, finished>>,
           MustEncrypt(cfg.mode) => secure,
           m.type # "SSLRequest",
           \/ scram' = scram /\ scram = NoScram /\ m.type # "proof"
           \/ /\ scram' = [nonce |-> attempt, sig |-> scram'.sig]
              /\ scram'.sig \in {<<>>, SignedBy(cfg.password)}
              /\ m.type \in {"first", "proof"} /\ srv # "fresh"
              /\ m.type = "proof" \/ finished => scram'.sig # <<>>
    PROVE  StartupInv'
<1>1. Connected /\ Connected' /\ sock = "open"
  BY DEF Connected, StartupInv, Turns
<1>2. up = <<>> /\ inbox' = <<>> /\ up' = <<m>> /\ up'[1] = m
  <2>1. up = <<>> /\ inbox' = <<>>
    BY <1>1, TakeStep
  <2> QED BY <2>1, OneMessage DEF Send
<1>3. Len(inbox') = 0 /\ inbox' \in Seq(ToSet(inbox')) /\ 1..0 = {}
  BY <1>2, EmptySeq
<1>4. TypeOK'
  BY DEF StartupInv, TypeOK
<1>5. Turns'
  BY <1>1, <1>2, <1>3 DEF Turns
<1>6. Keys'
  BY <1>1, <1>3 DEF StartupInv, Keys
<1>7. clear' = IF secure THEN clear ELSE clear \cup {m.type}
  BY DEF Send
<1>8. Policy'
  BY <1>7 DEF StartupInv, Policy, TLSPolicyHolds, NoTLS, MustEncrypt
<1>9. Exchange'
  <2>1. SignedBy(cfg.password)' = SignedBy(cfg.password) /\ proven' = proven
        /\ (proven # <<>> => proven = SignedBy(cfg.password) /\ peer.password = cfg.password)
    BY DEF StartupInv, Exchange, SignedBy, FromPeer
  <2>2. pc' = "auth" /\ \A i \in 1..Len(inbox') : FALSE
    BY <1>3
  <2>3. CASE scram' = scram /\ scram = NoScram /\ m.type # "proof"
    <3>1. ~finished'
      BY <1>1, <2>3 DEF StartupInv, Exchange, NoScram
    <3> QED BY <1>2, <2>1, <2>2, <2>3, <3>1 DEF Exchange, NoScram
  <2>4. CASE /\ scram' = [nonce |-> attempt, sig |-> scram'.sig]
             /\ scram'.sig \in {<<>>, SignedBy(cfg.password)}
             /\ m.type \in {"first", "proof"} /\ srv # "fresh"
             /\ m.type = "proof" \/ finished => scram'.sig # <<>>
    <3>1. up'[1].type \notin {"startup", "SSLRequest", "password", "md5"} /\ srv' # "fresh"
      BY <1>2, <2>4
    <3>2. scram'.nonce = attempt' /\ scram' = [nonce |-> scram'.nonce, sig |-> scram'.sig]
      BY <2>4
    <3> QED BY <1>2, <2>1, <2>2, <2>4, <3>1, <3>2 DEF Exchange
  <2> QED BY <2>3, <2>4
<1> QED BY <1>4, <1>5, <1>6, <1>8, <1>9 DEF StartupInv

(* A signature is not the empty one that stands for none.                  *)
LEMMA SignedNotEmpty == ASSUME NEW p PROVE SignedBy(p) # <<>>
BY DEF SignedBy, Signature

(* startup reads on: nothing is sent, and at most the key and the verified *)
(* signature are kept.                                                     *)
LEMMA PassStep ==
    ASSUME StartupInv, pc = "auth", Take,
           UNCHANGED <<pc, err, attempt, cfg, scram, sock, deadline, secure, clear, up, srv, peer, finished>>,
           pid' \in {0, attempt} \cup {pid},
           \/ proven' = proven /\ Head(inbox).type \in {"ignored", "key"}
           \/ /\ proven' = scram.sig
              /\ scram.sig # <<>> =>
                   scram.sig = SignedBy(cfg.password) /\ peer.password = cfg.password
    PROVE  StartupInv'
<1>1. Connected /\ Connected'
  BY DEF Connected
<1>2. /\ up = <<>> /\ inbox' \in Seq(ToSet(inbox')) /\ 1 \in 1..Len(inbox)
      /\ Head(inbox) = inbox[1]
      /\ \A i \in 1..Len(inbox') : i + 1 \in 1..Len(inbox) /\ inbox'[i] = inbox[i + 1]
      /\ \A i \in 1..Len(inbox') : i < Len(inbox') => inbox'[i].type \in Passing
  BY <1>1, TakeStep
<1>3. TypeOK'
  <2>1. pid \in {0, attempt} /\ attempt \in 0..MaxOpens /\ 0 \in 0..MaxOpens
    BY <1>1, StartupAssumption DEF StartupInv, TypeOK, Keys
  <2> QED BY <2>1 DEF StartupInv, TypeOK
<1>4. Turns'
  BY <1>1, <1>2 DEF StartupInv, Turns
<1>5. Keys'
  <2>1. \A i \in 1..Len(inbox') : inbox'[i].type = "key" => inbox'[i].pid = attempt
    BY <1>1, <1>2 DEF StartupInv, Keys
  <2> QED BY <1>1, <2>1 DEF StartupInv, Keys
<1>6. Policy'
  BY DEF StartupInv, Policy, TLSPolicyHolds, NoTLS, MustEncrypt
<1>7. Exchange'
  <2>1. SignedBy(cfg.password)' = SignedBy(cfg.password)
        /\ SignedBy(peer.password)' = SignedBy(peer.password)
    BY DEF SignedBy
  <2>2. \A i \in 1..Len(inbox') : inbox'[i].type = "continue" =>
          inbox'[i].nonce = <<inbox'[i].nonce[1], "srv">> /\ inbox'[i].salt \in {"salt", ""}
    <3>1. \A i \in 1..Len(inbox) : inbox[i].type = "continue" =>
            inbox[i].nonce = <<inbox[i].nonce[1], "srv">> /\ inbox[i].salt \in {"salt", ""}
      BY <1>1 DEF StartupInv, Exchange
    <3> QED BY <1>2, <3>1, Zenon
  <2>7. srv = "fresh" => \A i \in 1..Len(inbox') : inbox'[i].type # "sasl"
    BY <1>1, <1>2 DEF StartupInv, Exchange
  <2>3. scram # NoScram =>
          /\ scram.nonce = attempt
          /\ scram.sig \in {<<>>, SignedBy(cfg.password)}
          /\ \A i \in 1..Len(inbox') : inbox'[i].type \notin {"password", "md5", "sasl"}
    BY <1>1, <1>2 DEF StartupInv, Exchange
  <2>8. \A i \in 1..Len(inbox') : inbox'[i].type = "final" => FromPeer(inbox[i].sig)'
    <3>1. \A i \in 1..Len(inbox) : inbox[i].type = "final" => FromPeer(inbox[i].sig)
      BY <1>1 DEF StartupInv, Exchange
    <3>2. \A i \in 1..Len(inbox') : inbox'[i].type = "final" => FromPeer(inbox[i + 1].sig)
      BY <1>2, <3>1, Zenon
    <3> QED BY <1>2, <2>1, <3>2 DEF FromPeer
  <2>4. finished /\ proven' = <<>> =>
          \A i \in 1..Len(inbox') : inbox'[i].type # "ready"
    <3> SUFFICES ASSUME finished, proven' = <<>>, NEW i \in 1..Len(inbox')
                 PROVE  inbox'[i].type # "ready"
      OBVIOUS
    <3>1. proven = <<>> /\ inbox[1].type # "final"
      BY <1>1, <1>2 DEF StartupInv, Exchange
    <3>2. inbox[i + 1].type # "ready"
      BY <1>2, <3>1 DEF StartupInv, Exchange
    <3> QED BY <1>2, <3>2
  <2>5. proven' # <<>> => proven' = SignedBy(cfg.password) /\ peer.password = cfg.password
    <3>1. proven # <<>> => proven = SignedBy(cfg.password) /\ peer.password = cfg.password
      BY DEF StartupInv, Exchange
    <3> QED BY <3>1
  <2>6. /\ scram' = scram /\ scram = [nonce |-> scram.nonce, sig |-> scram.sig]
        /\ srv' = srv /\ (srv = "fresh" => scram = NoScram) /\ up' = <<>>
        /\ finished => scram.sig # <<>>
    BY <1>1, <1>2 DEF StartupInv, Exchange
  <2>9. /\ finished' => scram'.sig # <<>>
        /\ finished' /\ proven' = <<>> => \A i \in 1..Len(inbox') : inbox'[i].type # "ready"
    BY <2>4, <2>6, Zenon
  <2> QED BY <2>1, <2>2, <2>3, <2>5, <2>6, <2>7, <2>8, <2>9 DEF Exchange, FromPeer
<1> QED BY <1>3, <1>4, <1>5, <1>6, <1>7 DEF StartupInv

-----------------------------------------------------------------------------
(* The actions *)

(* A new call of Open.                                                     *)
LEMMA OpenStep ==
    ASSUME StartupInv, NEW c \in Configs, NEW p \in Peers, Open(c, p) \/ DialFails(c, p)
    PROVE  StartupInv'
<1>1. /\ attempt' = attempt + 1 /\ attempt < MaxOpens /\ cfg' = c /\ peer' = p
      /\ scram' = NoScram /\ pid' = 0 /\ proven' = <<>> /\ inbox' = <<>> /\ secure' = FALSE
      /\ finished' = FALSE
  BY DEF Open, DialFails, Dial
<1>2. Len(inbox') = 0 /\ inbox' \in Seq(ToSet(inbox')) /\ \A i \in 1..Len(inbox') : FALSE
  BY <1>1, EmptySeq
<1>3. c.mode \in 0..4 /\ attempt' \in 0..MaxOpens /\ 0 \in 0..MaxOpens
  BY <1>1, StartupAssumption DEF Configs, StartupInv, TypeOK, SSLDisable, SSLVerifyFull
<1>4. scram' = [nonce |-> scram'.nonce, sig |-> scram'.sig]
  BY <1>1 DEF NoScram
<1>5. CASE DialFails(c, p)
  <2>1. /\ pc' = "error" /\ err' = "dial" /\ sock' = "none" /\ deadline' = "none"
        /\ clear' = {} /\ srv' = "none"
    BY <1>5 DEF DialFails
  <2>2. TypeOK'
    BY <1>1, <1>3, <2>1 DEF TypeOK
  <2>3. Turns' /\ Keys'
    BY <2>1 DEF Turns, Keys, Connected
  <2>4. Policy'
    BY <1>1, <2>1 DEF Policy, TLSPolicyHolds
  <2>5. Exchange'
    BY <1>1, <1>4, <2>1 DEF Exchange, Connected
  <2> QED BY <2>2, <2>3, <2>4, <2>5 DEF StartupInv
<1>6. CASE Open(c, p)
  <2> DEFINE first == IF NoTLS(c) THEN "startup" ELSE "SSLRequest"
  <2>1. /\ pc' = (IF NoTLS(c) THEN "auth" ELSE "sslreply") /\ err' = "none" /\ sock' = "open"
        /\ deadline' = "armed" /\ srv' = "fresh" /\ up' = <<Msg(first)>> /\ clear' = {first}
    BY <1>6 DEF Open, HandshakeDeadline
  <2>2. TypeOK'
    BY <1>1, <1>3, <2>1 DEF TypeOK
  <2>3. up'[1] = Msg(first)
    BY <2>1, OneMessage
  <2>4. Turns' /\ Keys'
    BY <1>1, <1>2, <2>1, <2>3 DEF Turns, Keys, Connected
  <2>5. Policy'
    BY <1>1, <1>3, <2>1 DEF Policy, TLSPolicyHolds, NoTLS, MustEncrypt, SSLDisable, SSLRequire,
                            SSLVerifyFull
  <2>6. Exchange'
    BY <1>1, <1>2, <1>4, <2>1, <2>3 DEF Exchange, Msg
  <2> QED BY <2>2, <2>4, <2>5, <2>6 DEF StartupInv
<1> QED BY <1>5, <1>6

(* maybeNegotiateTLS.                                                      *)
LEMMA NegotiateStep ==
    ASSUME StartupInv, ReplyS \/ HandshakeOK \/ HandshakeFails \/ ReplyN \/ ReplyFails
    PROVE  StartupInv'
<1>1. CASE ReplyS
  <2>1. /\ pc = "sslreply" /\ Take /\ Head(inbox).type = "S" /\ pc' = "handshake"
        /\ UNCHANGED <<err, attempt, cfg, scram, pid, proven, sock, deadline, secure, clear, up,
                       srv, peer, finished>>
    BY <1>1 DEF ReplyS, netVars, serverVars
  <2>2. Connected /\ Connected' /\ up = <<>> /\ inbox' = <<>>
    BY <2>1, TakeStep DEF Connected, Passing
  <2>3. Len(inbox') = 0 /\ inbox' \in Seq(ToSet(inbox')) /\ \A i \in 1..Len(inbox') : FALSE
    BY <2>2, EmptySeq
  <2>4. TypeOK'
    BY <2>1 DEF StartupInv, TypeOK
  <2>5. Turns' /\ Keys'
    BY <2>1, <2>2, <2>3 DEF StartupInv, Turns, Keys
  <2>6. Policy'
    BY <2>1 DEF StartupInv, Policy, TLSPolicyHolds, NoTLS, MustEncrypt
  <2>7. Exchange'
    BY <2>1, <2>2, <2>3 DEF StartupInv, Exchange, SignedBy, FromPeer
  <2> QED BY <2>4, <2>5, <2>6, <2>7 DEF StartupInv
<1>2. CASE HandshakeOK
  <2>1. /\ pc = "handshake" /\ pc' = "auth" /\ Accepts(cfg.mode, peer.cert) /\ secure' = TRUE
        /\ srv' = "fresh" /\ up' = Append(up, Msg("startup")) /\ clear' = clear
        /\ UNCHANGED <<err, attempt, cfg, scram, pid, proven, sock, deadline, inbox, peer, finished>>
    BY <1>2 DEF HandshakeOK, SendStartup, Send
  <2>2. /\ Connected /\ Connected' /\ up = <<>> /\ inbox = <<>> /\ scram = NoScram
        /\ \A i \in 1..Len(inbox) : FALSE
    <3>1. Connected /\ Connected' /\ up = <<>> /\ inbox = <<>> /\ scram = NoScram
      BY <2>1 DEF Connected, StartupInv, Turns, Exchange
    <3>2. Len(inbox) = 0
      BY <3>1
    <3> QED BY <3>1, <3>2
  <2>3. up' = <<Msg("startup")>> /\ up'[1] = Msg("startup")
    BY <2>1, <2>2, OneMessage
  <2>4. TypeOK'
    BY <2>1 DEF StartupInv, TypeOK
  <2>5. Turns' /\ Keys'
    BY <2>1, <2>2, <2>3 DEF StartupInv, Turns, Keys
  <2>6. Policy'
    <3>1. cfg.mode \in 0..4
      BY DEF StartupInv, TypeOK, Configs, SSLDisable, SSLVerifyFull
    <3>2. cfg.mode # SSLDisable /\ (cfg.mode = SSLVerifyFull => peer.cert = "good")
      BY <2>1, <3>1 DEF StartupInv, Policy, NoTLS, Accepts, SSLDisable, SSLPrefer, SSLRequire,
                        SSLVerifyCA, SSLVerifyFull
    <3> QED BY <2>1, <3>2 DEF StartupInv, Policy, TLSPolicyHolds, NoTLS, MustEncrypt
  <2>7. Exchange'
    BY <2>1, <2>2, <2>3 DEF StartupInv, Exchange, SignedBy, FromPeer, Msg
  <2> QED BY <2>4, <2>5, <2>6, <2>7 DEF StartupInv
<1>3. CASE HandshakeFails
  BY <1>3, FailStep DEF HandshakeFails
<1>4. CASE ReplyN
  <2>1. /\ pc = "sslreply" /\ Take /\ Head(inbox).type = "N" /\ ~MustEncrypt(cfg.mode)
        /\ Send(Msg("startup")) /\ pc' = "auth"
        /\ UNCHANGED <<err, attempt, cfg, scram, pid, proven, sock, deadline, secure, srv, peer, finished>>
    BY <1>4 DEF ReplyN, SendStartup, serverVars
  <2>2. scram = NoScram /\ Msg("startup").type = "startup"
    BY <2>1 DEF StartupInv, Exchange, Msg
  <2> QED BY <2>1, <2>2, SendStep DEF Passing
<1>5. CASE ReplyFails
  <2>1. PICK e \in {"refused", "pg", "garbled", "protocol"} : Fail(e)
    BY <1>5 DEF ReplyFails
  <2> QED BY <2>1, FailStep
<1> QED BY <1>1, <1>2, <1>3, <1>4, <1>5

(* startup reads a message that is not about SASL.                         *)
LEMMA ReadStep ==
    ASSUME StartupInv,
           ReadIgnored \/ ReadPasswordRequest \/ ReadKey \/ ReadError \/ ReadReady \/ IOFails
    PROVE  StartupInv'
<1>1. CASE ReadIgnored
  <2>1. /\ pc = "auth" /\ Take /\ Head(inbox).type = "ignored"
        /\ UNCHANGED <<pc, err, attempt, cfg, scram, pid, proven, sock, deadline, secure, clear,
                       up, srv, peer, finished>>
    BY <1>1 DEF ReadIgnored, Reading, clientVars, netVars, serverVars
  <2> QED BY <2>1, PassStep
<1>2. CASE ReadPasswordRequest
  <2> DEFINE m == [type |-> Head(inbox).type, credential |-> Credential(Head(inbox))]
  <2>1. /\ pc = "auth" /\ Take /\ Head(inbox).type \in {"password", "md5"} /\ Send(m)
        /\ UNCHANGED <<pc, err, attempt, cfg, scram, pid, proven, sock, deadline, secure, srv, peer, finished>>
    BY <1>2 DEF ReadPasswordRequest, Reading, clientVars, serverVars
  <2>2. scram = NoScram
    <3>1. Connected /\ 1 \in 1..Len(inbox) /\ Head(inbox) = inbox[1]
      BY <2>1, TakeStep DEF Connected
    <3> QED BY <2>1, <3>1 DEF StartupInv, Exchange
  <2>3. m.type \in {"password", "md5"} /\ (MustEncrypt(cfg.mode) => secure)
    BY <2>1 DEF StartupInv, Policy
  <2> HIDE DEF m
  <2> QED BY <2>1, <2>2, <2>3, SendStep DEF Passing
<1>3. CASE ReadKey
  <2>1. /\ pc = "auth" /\ Take /\ Head(inbox).type = "key" /\ pid' = Head(inbox).pid
        /\ UNCHANGED <<pc, err, attempt, cfg, scram, proven, sock, deadline, secure, clear,
                       up, srv, peer, finished>>
    BY <1>3 DEF ReadKey, Reading, netVars, serverVars
  <2>2. Connected /\ 1 \in 1..Len(inbox) /\ Head(inbox) = inbox[1]
    BY <2>1, TakeStep DEF Connected
  <2>3. pid' = attempt
    BY <2>1, <2>2 DEF StartupInv, Keys
  <2> QED BY <2>1, <2>3, PassStep
<1>4. CASE ReadError
  BY <1>4, FailStep DEF ReadError
<1>5. CASE ReadReady
  <2>1. /\ pc = "auth" /\ Take /\ Head(inbox).type = "ready" /\ pc' = "client"
        /\ deadline' = "none"
        /\ UNCHANGED <<err, attempt, cfg, scram, pid, proven, sock, secure, clear, up, srv, peer, finished>>
    BY <1>5 DEF ReadReady, Reading, ClearedDeadline, serverVars
  <2>2. /\ Connected /\ Connected' /\ up = <<>> /\ inbox' = <<>>
        /\ 1 \in 1..Len(inbox) /\ Head(inbox) = inbox[1]
    BY <2>1, TakeStep DEF Connected, Passing
  <2>3. Len(inbox') = 0 /\ inbox' \in Seq(ToSet(inbox')) /\ \A i \in 1..Len(inbox') : FALSE
    BY <2>2, EmptySeq
  <2>4. TypeOK'
    BY <2>1 DEF StartupInv, TypeOK
  <2>5. Turns' /\ Keys'
    BY <2>1, <2>2, <2>3 DEF StartupInv, Turns, Keys
  <2>6. Policy'
    BY <2>1 DEF StartupInv, Policy, TLSPolicyHolds
  <2>7. finished => proven # <<>>
    BY <2>1, <2>2 DEF StartupInv, Exchange
  <2>8. Exchange'
    BY <2>1, <2>2, <2>3, <2>7 DEF StartupInv, Exchange, SignedBy, FromPeer
  <2> QED BY <2>4, <2>5, <2>6, <2>8 DEF StartupInv
<1>6. CASE IOFails
  BY <1>6, FailStep DEF IOFails
<1> QED BY <1>1, <1>2, <1>3, <1>4, <1>5, <1>6

(* handleAuth with SASL.                                                   *)
LEMMA SASLStep ==
    ASSUME StartupInv, ReadSASL \/ ReadContinue \/ ReadFinal \/ AuthFails
    PROVE  StartupInv'
<1>1. ASSUME pc = "auth", Take
      PROVE  /\ Connected /\ 1 \in 1..Len(inbox) /\ Head(inbox) = inbox[1]
             /\ MustEncrypt(cfg.mode) => secure
  BY <1>1, TakeStep DEF Connected, StartupInv, Policy
<1>2. CASE ReadSASL
  <2> DEFINE m == [type |-> "first", nonce |-> scram'.nonce]
  <2>1. /\ pc = "auth" /\ Take /\ Head(inbox).type = "sasl" /\ Send(m)
        /\ scram' = [nonce |-> attempt, sig |-> <<>>]
        /\ UNCHANGED <<pc, err, attempt, cfg, pid, proven, sock, deadline, secure, srv, peer, finished>>
    BY <1>2 DEF ReadSASL, Reading, NewSCRAM, serverVars
  <2>2. m.type = "first"
    OBVIOUS
  <2>3. scram = NoScram /\ srv # "fresh" /\ ~finished
    <3>1. scram = NoScram /\ srv # "fresh"
      BY <1>1, <2>1 DEF StartupInv, Exchange, Turns
    <3>2. finished => scram.sig # <<>>
      BY <1>1, <2>1 DEF StartupInv, Exchange
    <3> QED BY <3>1, <3>2 DEF NoScram
  <2> HIDE DEF m
  <2> QED BY <1>1, <2>1, <2>2, <2>3, SendStep DEF Passing
<1>3. CASE ReadContinue
  <2> DEFINE m == [type |-> "proof", proof |-> ClientFinal(Head(inbox)).proof]
  <2>1. /\ pc = "auth" /\ Take /\ Head(inbox).type = "continue" /\ Send(m)
        /\ scram # NoScram /\ ServerFirstOK(Head(inbox))
        /\ scram' = [scram EXCEPT !.sig = ClientFinal(Head(inbox)).sig]
        /\ UNCHANGED <<pc, err, attempt, cfg, pid, proven, sock, deadline, secure, srv, peer, finished>>
    BY <1>3 DEF ReadContinue, Reading, serverVars
  <2>2. m.type = "proof"
    OBVIOUS
  <2>3. /\ scram.nonce = attempt /\ srv # "fresh"
        /\ scram = [nonce |-> scram.nonce, sig |-> scram.sig]
        /\ Head(inbox).nonce = <<Head(inbox).nonce[1], "srv">>
        /\ Head(inbox).salt \in {"salt", ""}
    BY <1>1, <2>1 DEF StartupInv, Exchange
  <2>4. Head(inbox).nonce = <<attempt, "srv">> /\ Head(inbox).salt = "salt"
    BY <2>1, <2>3 DEF ServerFirstOK
  <2>5. ClientFinal(Head(inbox)).sig = SignedBy(cfg.password)
    BY <2>4 DEF ClientFinal, SignedBy
  <2>6. scram' = [nonce |-> attempt, sig |-> scram'.sig] /\ scram'.sig = SignedBy(cfg.password)
    BY <2>1, <2>3, <2>5
  <2> HIDE DEF m
  <2> QED BY <1>1, <2>1, <2>2, <2>3, <2>6, SignedNotEmpty, SendStep DEF Passing
<1>4. CASE ReadFinal
  <2>1. /\ pc = "auth" /\ Take /\ Head(inbox).type = "final"
        /\ scram # NoScram /\ Head(inbox).sig = scram.sig /\ proven' = scram.sig
        /\ UNCHANGED <<pc, err, attempt, cfg, scram, pid, sock, deadline, secure, clear, up, srv, peer, finished>>
    BY <1>4 DEF ReadFinal, Reading, Verify, netVars, serverVars
  <2>2. FromPeer(scram.sig) /\ scram.sig \in {<<>>, SignedBy(cfg.password)}
    BY <1>1, <2>1 DEF StartupInv, Exchange
  <2>3. ASSUME scram.sig # <<>>
        PROVE  scram.sig = SignedBy(cfg.password) /\ peer.password = cfg.password
    <3>1. scram.sig = SignedBy(cfg.password)
      BY <2>2, <2>3
    <3>2. SignedBy(cfg.password)[3] = <<attempt, "srv">>
      BY DEF SignedBy, Signature
    <3>3. SignedBy(cfg.password) = SignedBy(peer.password)
      BY <2>2, <2>3, <3>1, <3>2 DEF FromPeer
    <3> QED BY <3>1, <3>3 DEF SignedBy, Signature
  <2> QED BY <2>1, <2>3, PassStep
<1>5. CASE AuthFails
  BY <1>5, FailStep DEF AuthFails
<1> QED BY <1>2, <1>3, <1>4, <1>5

(* The server answers, or dies.                                            *)
LEMMA ServerSteps ==
    ASSUME StartupInv, ServerStep
    PROVE  StartupInv'
<1>1. ASSUME NEW t, Serve(t)
      PROVE  /\ Connected /\ up = <<up[1]>> /\ up # <<>> /\ up[1].type = t
             /\ t \in {"startup", "SSLRequest", "password", "md5"} => scram = NoScram
             /\ t = "proof" => scram.sig # <<>>
  <2>1. sock = "open" /\ up # <<>> /\ Head(up).type = t
    BY <1>1 DEF Serve
  <2>2. Connected /\ up = <<up[1]>>
    BY <2>1 DEF StartupInv, Turns
  <2>3. Head(up) = up[1]
    BY <2>2, OneMessage
  <2> QED BY <2>1, <2>2, <2>3 DEF StartupInv, Exchange
<1>2. ASSUME NEW t, Serve(t), Reject PROVE StartupInv'
  <2>1. PICK ms \in Rejections : Answer(ms, "gone")
    BY <1>2 DEF Reject
  <2>2. /\ Script(ms) /\ \A i \in 1..Len(ms) : ms[i].type \in {"ignored", "error"}
        /\ ms[1].type # "final"
    BY RejectScript
  <2> QED BY <1>2, <2>1, <2>2, ServeStep
<1>3. ASSUME NEW t \in {"startup", "password", "md5"}, Serve(t), Welcome PROVE StartupInv'
  <2>1. PICK ms \in Welcomes : Answer(ms, "ready")
    BY <1>3 DEF Welcome
  <2> QED BY <1>1, <1>3, <2>1, WelcomeScript, ServeStep
<1>4. CASE ServeSSLRequest
  <2>1. Serve("SSLRequest") /\ scram = NoScram /\ srv = "fresh"
    BY <1>1, <1>4 DEF ServeSSLRequest
  <2>2. PICK t \in {"S", "N", "E", "odd"}, next \in {"tls", "fresh", "gone"} :
          Answer(<<Msg(t)>>, next)
    BY <1>4 DEF ServeSSLRequest
  <2>3. Msg(t).type = t
    BY DEF Msg
  <2>4. Script(<<Msg(t)>>)
    BY <2>3, SingleScript
  <2>5. \A i \in 1..Len(<<Msg(t)>>) : <<Msg(t)>>[i].type # "sasl"
    BY <2>3, OneMessage, OneIndex
  <2> QED BY <2>1, <2>2, <2>4, <2>5, ServeStep
<1>5. CASE ServeStartup
  <2>1. Serve("startup") /\ scram = NoScram /\ srv = "fresh"
    BY <1>1, <1>5 DEF ServeStartup
  <2>2. CASE Welcome \/ Reject
    BY <1>2, <1>3, <2>1, <2>2
  <2>3. CASE \E m \in Requests : Answer(<<m>>, "auth")
    <3>1. PICK m \in Requests : Answer(<<m>>, "auth")
      BY <2>3
    <3>2. m.type \in {"password", "md5", "sasl"}
      BY DEF Requests
    <3>3. Script(<<m>>)
      BY <3>2, SingleScript
    <3> QED BY <2>1, <3>1, <3>3, ServeStep
  <2>4. CASE \E m \in Oddities : Answer(<<m>>, "gone")
    <3>1. PICK m \in Oddities : Answer(<<m>>, "gone")
      BY <2>4
    <3>2. /\ m.type \in {"odd", "short", "continue", "final"}
          /\ m.type = "continue" => m.nonce = <<1, "srv">> /\ m.salt = "salt"
          /\ m.type = "final" => m.sig = <<>>
      BY DEF Oddities, Msg
    <3>3. m.nonce = <<1, "srv">> => m.nonce = <<m.nonce[1], "srv">>
      OBVIOUS
    <3>4. Script(<<m>>)
      BY <3>2, <3>3, SingleScript DEF FromPeer
    <3> QED BY <2>1, <3>1, <3>4, ServeStep
  <2> QED BY <1>5, <2>2, <2>3, <2>4 DEF ServeStartup
<1>6. CASE ServePassword
  <2>1. PICK t \in {"password", "md5"} : Serve(t) /\ (Welcome \/ Reject)
    BY <1>6 DEF ServePassword, Judge
  <2> QED BY <1>2, <1>3, <2>1
<1>10. attempt \in Nat
  BY StartupAssumption DEF StartupInv, TypeOK
<1>11. ASSUME NEW t, Serve(t), NEW f \in Finals, NEW ms \in Welcomes, Answer(f \o ms, "ready"),
              srv = "proof" => t = "proof"
       PROVE  StartupInv'
  <2> DEFINE s == f \o ms
  <2>1. Script(ms) /\ \A i \in 1..Len(ms) : ms[i].type \in {"ignored", "key", "ready"}
    BY WelcomeScript
  <2>2. Script(s) /\ \A i \in 1..Len(s) : s[i].type \notin {"password", "md5", "sasl"}
    BY <1>10, <2>1, FinalsScript
  <2>3. Answer(s, "ready")
    BY <1>11
  <2> HIDE DEF s
  <2> QED BY <1>1, <1>11, <2>2, <2>3, ServeStep
<1>7. CASE ServeFirst
  <2>1. Serve("first") /\ srv = "auth"
    BY <1>7 DEF ServeFirst
  <2>2. ASSUME NEW f \in Finals, NEW n \in {Head(up).nonce, 0}, NEW salt \in {"salt", ""},
               Answer(f \o <<[type |-> "continue", nonce |-> <<n, "srv">>, salt |-> salt]>>,
                      "proof")
        PROVE  StartupInv'
    <3> DEFINE m == [type |-> "continue", nonce |-> <<n, "srv">>, salt |-> salt]
    <3>1. /\ m.type = "continue" /\ m.nonce = <<n, "srv">> /\ m.salt \in {"salt", ""}
          /\ m.nonce[1] = n
      OBVIOUS
    <3> HIDE DEF m
    <3>2. Script(<<m>>)
      BY <3>1, SingleScript
    <3>3. \A i \in 1..Len(<<m>>) : <<m>>[i] = m
      BY OneMessage, OneIndex, Zenon
    <3> DEFINE ms == <<m>>
               s == f \o ms
    <3>4. Script(ms) /\ \A i \in 1..Len(ms) : ms[i].type = "continue"
      BY <3>1, <3>2, <3>3, Zenon
    <3>5. Answer(s, "proof")
      BY <2>2 DEF m
    <3> HIDE DEF ms
    <3>6. Script(s) /\ \A i \in 1..Len(s) :
              s[i].type = "final" \/ \E j \in 1..Len(ms) : s[i].type = ms[j].type
      BY <1>10, <3>4, FinalsScript
    <3> HIDE DEF s
    <3>7. \A i \in 1..Len(s) : s[i].type \notin {"password", "md5", "sasl"}
      BY <3>4, <3>6
    <3> QED BY <2>1, <3>5, <3>6, <3>7, ServeStep
  <2> QED BY <1>7, <1>11, <2>1, <2>2 DEF ServeFirst
<1>8. CASE ServeProof
  <2>1. Serve("proof")
    BY <1>8 DEF ServeProof
  <2> QED BY <1>2, <1>8, <1>11, <2>1 DEF ServeProof
<1>9. CASE ServerDies
  <2>1. /\ sock = "open" /\ srv' = "gone"
        /\ UNCHANGED <<pc, err, attempt, cfg, scram, pid, proven, sock, deadline, secure, clear, up, peer, finished>>
    BY <1>9 DEF ServerDies, clientVars, netVars
  <2>2. PICK n \in 0..Len(inbox) : inbox' = SubSeq(inbox, 1, n)
    BY <1>9 DEF ServerDies
  <2>3. Connected /\ Connected' /\ inbox \in Seq(ToSet(inbox))
    BY <2>1 DEF StartupInv, Turns, Connected
  <2>4. /\ inbox' \in Seq(ToSet(inbox')) /\ Len(inbox') = n /\ Len(inbox) \in Nat
        /\ \A i \in 1..Len(inbox') : i \in 1..Len(inbox) /\ inbox'[i] = inbox[i]
        /\ inbox = <<>> => inbox' = <<>>
    BY <2>2, <2>3, CutShort
  <2>5. TypeOK'
    BY <2>1 DEF StartupInv, TypeOK
  <2>6. Turns'
    <3>1. \A i \in 1..Len(inbox') : i < Len(inbox') => inbox'[i].type \in Passing
      BY <2>3, <2>4 DEF StartupInv, Turns
    <3> QED BY <2>1, <2>3, <2>4, <3>1 DEF StartupInv, Turns
  <2>7. Keys'
    BY <2>1, <2>3, <2>4 DEF StartupInv, Keys
  <2>8. Policy'
    BY <2>1 DEF StartupInv, Policy, TLSPolicyHolds, NoTLS, MustEncrypt
  <2>9. Exchange'
    <3>1. \A i \in 1..Len(inbox') : 1 \in 1..Len(inbox') /\ inbox'[1] = inbox[1]
      BY <2>4
    <3> QED BY <2>1, <2>3, <2>4, <3>1 DEF StartupInv, Exchange, SignedBy, FromPeer
  <2> QED BY <2>5, <2>6, <2>7, <2>8, <2>9 DEF StartupInv
<1> QED BY <1>4, <1>5, <1>6, <1>7, <1>8, <1>9 DEF ServerStep

(* Client.Close, and time.                                                 *)
LEMMA OtherSteps ==
    ASSUME StartupInv, Close \/ DeadlinePasses \/ UNCHANGED vars
    PROVE  StartupInv'
<1>1. CASE Close
  <2>1. /\ pc = "client" /\ pc' = "idle" /\ sock' = "closed"
        /\ UNCHANGED <<err, attempt, cfg, scram, pid, proven, deadline, secure, clear, srv, peer, finished>>
    BY <1>1 DEF Close, serverVars
  <2>2. TypeOK'
    BY <2>1 DEF StartupInv, TypeOK
  <2>3. Turns' /\ Keys'
    BY <2>1 DEF Turns, Keys, Connected
  <2>4. Policy'
    BY <2>1 DEF StartupInv, Policy, TLSPolicyHolds
  <2>5. Exchange'
    BY <2>1 DEF StartupInv, Exchange, Connected, SignedBy, FromPeer
  <2> QED BY <2>2, <2>3, <2>4, <2>5 DEF StartupInv
<1>2. CASE DeadlinePasses \/ UNCHANGED vars
  <2>1. /\ UNCHANGED <<pc, err, attempt, cfg, scram, pid, proven, sock, secure, clear, up, inbox, srv, peer, finished>>
        /\ deadline' = deadline \/ (deadline = "armed" /\ deadline' = "past")
    BY <1>2 DEF DeadlinePasses, vars, clientVars, netVars, serverVars
  <2>2. TypeOK'
    BY <2>1 DEF StartupInv, TypeOK
  <2>3. Turns' /\ Keys'
    BY <2>1 DEF StartupInv, Turns, Keys, Connected
  <2>4. Policy'
    BY <2>1 DEF StartupInv, Policy, TLSPolicyHolds, NoTLS, MustEncrypt
  <2>5. Exchange'
    BY <2>1 DEF StartupInv, Exchange, Connected, SignedBy, FromPeer
  <2> QED BY <2>2, <2>3, <2>4, <2>5 DEF StartupInv
<1> QED BY <1>1, <1>2

-----------------------------------------------------------------------------
(* The theorems *)

(* The inductive invariant: Open starts in it and every step keeps it.     *)
LEMMA StartupInductive ==
    /\ Init => StartupInv
    /\ StartupInv /\ [Next]_vars => StartupInv'
<1>1. ASSUME Init PROVE StartupInv
  <2>1. /\ pc = "idle" /\ err = "none" /\ attempt = 0 /\ sock = "none" /\ deadline = "none"
        /\ secure = FALSE /\ scram = NoScram /\ pid = 0 /\ proven = <<>> /\ srv = "none"
        /\ cfg = [mode |-> SSLPrefer, password |-> "right", timed |-> FALSE]
        /\ peer = [cert |-> "good", password |-> "right"] /\ clear = {}
        /\ finished = FALSE
    BY <1>1 DEF Init
  <2>2. TypeOK
    <3>1. cfg \in Configs /\ peer \in Peers
      BY <2>1 DEF Configs, Peers, Certificates, Passwords, SSLDisable, SSLPrefer, SSLVerifyFull
    <3>2. attempt \in 0..MaxOpens /\ pid \in 0..MaxOpens
      BY <2>1, StartupAssumption
    <3> QED BY <2>1, <3>1, <3>2 DEF TypeOK
  <2>3. Turns /\ Keys
    BY <2>1 DEF Turns, Keys, Connected
  <2>4. Policy
    BY <2>1 DEF Policy, TLSPolicyHolds
  <2>5. Exchange
    BY <2>1 DEF Exchange, Connected, NoScram
  <2> QED BY <2>2, <2>3, <2>4, <2>5 DEF StartupInv
<1>2. ASSUME StartupInv, [Next]_vars PROVE StartupInv'
  BY <1>2, OpenStep, NegotiateStep, ReadStep, SASLStep, ServerSteps, OtherSteps
     DEF Next, ClientStep
<1> QED BY <1>1, <1>2

(* The invariant holds in every behaviour of the handshake.                *)
LEMMA StartupInvariant == Spec => []StartupInv
BY StartupInductive, PTL DEF Spec

(* Open's state keeps its types through any number of calls: an error      *)
(* exactly where Open returned one.                                        *)
THEOREM StartupTypes == Spec => []TypeOK
<1>1. StartupInv => TypeOK
  BY DEF StartupInv
<1> QED BY <1>1, StartupInvariant, PTL

(* Open hands over a Client with an open socket, no deadline and nothing   *)
(* unread or unanswered, and leaves no socket open when it returns an      *)
(* error (conn.go, Open and startup).                                      *)
THEOREM HandoverTheorem == Spec => []HandoverIsClean
<1>1. StartupInv => HandoverIsClean
  BY DEF StartupInv, Turns, Keys, Connected, HandoverIsClean
<1> QED BY <1>1, StartupInvariant, PTL

(* No path through maybeNegotiateTLS, over any number of calls, sends more *)
(* than the SSLRequest in the clear when SSLMode demands TLS, or speaks    *)
(* TLS with another host under verify-full.                                *)
THEOREM TLSTheorem == Spec => []TLSPolicyHolds
<1>1. StartupInv => TLSPolicyHolds
  BY DEF StartupInv, Policy
<1> QED BY <1>1, StartupInvariant, PTL

(* The signature Verify accepts was made with the client's own password    *)
(* over the nonce of this very call; and if the server answered the proof  *)
(* with a SASLFinal, the Client that Open returns has verified it.  A      *)
(* server that leaves the SASLFinal out is not refused (conn.go:284, 305). *)
THEOREM MutualAuthTheorem == Spec => []MutualAuth
<1>1. StartupInv => MutualAuth
  BY DEF StartupInv, Exchange, MutualAuth, SignedBy
<1> QED BY <1>1, StartupInvariant, PTL

=============================================================================
