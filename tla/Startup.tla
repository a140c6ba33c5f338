------------------------------ MODULE Startup ------------------------------
(***************************************************************************)
(* pg2json.Open (pg2json/conn.go): the dial, the TLS negotiation of        *)
(* config.go's SSLMode, the startup message, the authentication exchange   *)
(* of handleAuth with SCRAM-SHA-256 (internal/auth/scram.go), and the      *)
(* handover of a Client.  A program calls Open again and again.            *)
(*                                                                         *)
(* The server is external.  It may refuse TLS, ask for any authentication  *)
(* method, reject, stall for ever or die at any point.  It takes turns     *)
(* with the client and asks for one method per connection, but need not    *)
(* keep SASL's order: handleAuth and startup do not ask for it.  A message *)
(* is its type and what the client looks at.  The cryptography is          *)
(* symbolic: a signature is the password and the transcript it was         *)
(* computed from, and two are equal only when those are.                   *)
(***************************************************************************)
EXTENDS Integers, SequencesExt

CONSTANT MaxOpens       \* bound of the model: calls of Open

ASSUME StartupAssumption == MaxOpens \in Nat \ {0}

VARIABLES
    pc,         \* where Open is; "client" and "error" are its results
    err,        \* the error Open returned, or "none"
    attempt,    \* the number of this call, which seeds its nonce
    cfg,        \* SSLMode, Password, and whether ctx has a deadline
    sock,       \* the TCP connection
    deadline,   \* the socket deadline
    secure,     \* the wire.Conn runs over TLS
    scram,      \* Client.scram
    pid,        \* Client.pid, 0 before BackendKeyData
    up,         \* messages sent and not yet received by the server
    inbox,      \* messages of the server not yet read
    srv,        \* what the server does next
    peer,       \* its certificate and the password it holds
    finished,   \* history: it answered the proof with a SASLFinal
    clear,      \* history: message types sent without TLS in this call
    proven      \* history: the signature Verify accepted in this call

clientVars == <<pc, err, attempt, cfg, scram, pid, proven>>
netVars == <<sock, deadline, secure, clear>>
serverVars == <<srv, peer, finished>>
vars == <<clientVars, netVars, up, inbox, serverVars>>

\* The iota constants of SSLMode.
SSLDisable == 0
SSLPrefer == 1
SSLRequire == 2
SSLVerifyCA == 3
SSLVerifyFull == 4

Passwords == {"right", "wrong"}
Configs == [mode: SSLDisable..SSLVerifyFull, password: Passwords, timed: BOOLEAN]
Certificates == {"good", "otherhost", "untrusted"}
NoScram == [nonce |-> 0, sig |-> <<>>]
Msg(t) == [type |-> t]

Init ==
    /\ pc = "idle" /\ err = "none" /\ attempt = 0
    /\ cfg = [mode |-> SSLPrefer, password |-> "right", timed |-> FALSE]
    /\ sock = "none" /\ deadline = "none" /\ secure = FALSE
    /\ scram = NoScram /\ pid = 0 /\ proven = <<>>
    /\ up = <<>> /\ inbox = <<>> /\ srv = "none"
    /\ peer = [cert |-> "good", password |-> "right"] /\ finished = FALSE
    /\ clear = {}

-----------------------------------------------------------------------------
(* Steps shared by the actions of Open *)

\* The Send of a wire.Builder: one message, flushed.
Send(m) ==
    /\ up' = Append(up, m)
    /\ clear' = IF secure' THEN clear ELSE clear \cup {m.type}

\* An error return of Open: maybeNegotiateTLS or startup failed, the
\* connection is closed and no Client is returned.
Fail(e) ==
    /\ pc' = "error" /\ err' = e /\ sock' = "closed"
    /\ UNCHANGED <<attempt, cfg, scram, pid, proven, deadline, secure, clear, up, serverVars>>

Take == inbox # <<>> /\ deadline # "past" /\ inbox' = Tail(inbox)

\* Variant for a mutation run: without a deadline of ctx none is set.
HandshakeDeadlineOfCtx(timed) == IF timed THEN "armed" ELSE "none"

\* SetDeadline after the dial: the deadline of ctx, or DialTimeout, which
\* applyDefaults made non-zero (a negative one fails the dial).
HandshakeDeadline(timed) == "armed"

\* startup: the message and the wait for the answers.  It is the last thing
\* maybeNegotiateTLS's callers do before they read.
SendStartup ==
    /\ pc' = "auth"
    /\ Send(Msg("startup"))

\* buildTLS = nil
NoTLS(c) == c.mode = SSLDisable

\* What every call of Open starts from: its configuration, the server it will
\* meet, and a Client without a key or a SCRAM exchange.
Dial(c, p) ==
    /\ pc \in {"idle", "error"} /\ attempt < MaxOpens
    /\ attempt' = attempt + 1 /\ cfg' = c
    /\ peer' = p /\ scram' = NoScram /\ pid' = 0 /\ proven' = <<>>
    /\ inbox' = <<>> /\ secure' = FALSE /\ finished' = FALSE

\* Open up to its first read: the dial succeeds, the handshake deadline is
\* set, and the SSLRequest or, without TLS, the startup message goes out.
Open(c, p) ==
    /\ Dial(c, p)
    /\ sock' = "open" /\ srv' = "fresh" /\ err' = "none"
    /\ deadline' = HandshakeDeadline(c.timed)
    /\ LET first == IF NoTLS(c) THEN "startup" ELSE "SSLRequest" IN
         /\ pc' = IF NoTLS(c) THEN "auth" ELSE "sslreply"
         /\ up' = <<Msg(first)>> /\ clear' = {first}

\* d.DialContext returns an error: there is nothing to close.
DialFails(c, p) ==
    /\ Dial(c, p)
    /\ pc' = "error" /\ err' = "dial" /\ sock' = "none" /\ deadline' = "none"
    /\ up' = <<>> /\ clear' = {} /\ srv' = "none"

-----------------------------------------------------------------------------
(* maybeNegotiateTLS *)

\* Case 'S': tls.Client takes over the socket.
ReplyS ==
    /\ pc = "sslreply" /\ Take /\ Head(inbox).type = "S"
    /\ pc' = "handshake"
    /\ UNCHANGED <<err, attempt, cfg, scram, pid, proven, netVars, up, serverVars>>

\* Which certificates the tls.Config of buildTLS accepts.
Accepts(mode, cert) ==
    CASE mode \in {SSLPrefer, SSLRequire} -> TRUE       \* InsecureSkipVerify
      [] mode = SSLVerifyCA -> cert # "untrusted"       \* verifyChainNoHost
      [] OTHER -> cert = "good"

\* t.Handshake returns nil: SwapNet, and the startup message under TLS.
HandshakeOK ==
    /\ pc = "handshake" /\ srv = "tls" /\ deadline # "past" /\ Accepts(cfg.mode, peer.cert)
    /\ secure' = TRUE /\ srv' = "fresh" /\ SendStartup
    /\ UNCHANGED <<err, attempt, cfg, scram, pid, proven, sock, deadline, inbox, peer, finished>>

\* t.Handshake fails: the certificate, the deadline, or the other end.
HandshakeFails ==
    /\ pc = "handshake"
    /\ \/ srv = "tls" /\ ~Accepts(cfg.mode, peer.cert)
       \/ deadline = "past" \/ srv = "gone"
    /\ Fail("tls") /\ UNCHANGED inbox

\* Variant for a mutation run: SSLRequire falls back too.
MustEncryptLate(mode) == mode > SSLRequire

\* c.cfg.SSLMode >= SSLRequire
MustEncrypt(mode) == mode >= SSLRequire

\* Case 'N' without an obligation: the startup message in plain text.
ReplyN ==
    /\ pc = "sslreply" /\ Take /\ Head(inbox).type = "N" /\ ~MustEncrypt(cfg.mode)
    /\ secure' = secure /\ SendStartup
    /\ UNCHANGED <<err, attempt, cfg, scram, pid, proven, sock, deadline, serverVars>>

\* The other answers: 'N' against SSLMode, 'E' with the ErrorResponse that
\* readErrorBody reads (whole or cut short), or an unknown byte.
ReplyFails ==
    /\ pc = "sslreply" /\ Take
    /\ \/ Head(inbox).type = "N" /\ MustEncrypt(cfg.mode) /\ Fail("refused")
       \/ Head(inbox).type = "E" /\ \E e \in {"pg", "garbled"} : Fail(e)
       \/ Head(inbox).type = "odd" /\ Fail("protocol")

-----------------------------------------------------------------------------
(* startup and handleAuth *)

Reading(t) == pc = "auth" /\ Take /\ Head(inbox).type = t

\* AuthOK, ParameterStatus, NoticeResponse, NegotiateProtocolVersion and a
\* BackendKeyData too short to hold a key leave nothing behind.
ReadIgnored ==
    /\ Reading("ignored")
    /\ UNCHANGED <<clientVars, netVars, up, serverVars>>

\* MD5Password: a digest of the password and the salt of one request.
MD5Password(password, salt) == <<"md5", password, salt>>

Credential(m) ==
    IF m.type = "md5" THEN MD5Password(cfg.password, m.salt) ELSE <<cfg.password>>

\* AuthCleartextPassword, AuthMD5Password.
ReadPasswordRequest ==
    /\ Reading("password") \/ Reading("md5")
    /\ secure' = secure
    /\ Send([type |-> Head(inbox).type, credential |-> Credential(Head(inbox))])
    /\ UNCHANGED <<clientVars, sock, deadline, serverVars>>

(* scram.go.  A nonce is the number of the call that drew it; the server's *)
(* nonce is that number and its own part.                                  *)

PickMechanism(mechanisms) == "SCRAM-SHA-256" \in mechanisms

NewSCRAM == [nonce |-> attempt, sig |-> <<>>]

\* HMAC, PBKDF2 and the keys derived with them.
Signature(key, password, nonce, salt) == <<key, password, nonce, salt>>

\* parseServerFirst finds its fields and the nonce extends ours.
ServerFirstOK(m) == m.salt # "" /\ m.nonce[1] = scram.nonce

\* ClientFinal: the proof to send and the signature to expect, over the
\* exchange so far.
ClientFinal(m) ==
    [proof |-> Signature("client", cfg.password, m.nonce, m.salt),
     sig |-> Signature("server", cfg.password, m.nonce, m.salt)]

\* Variant for a mutation run: the server's signature is not compared.
VerifyPresent(sig) == TRUE

\* Verify: hmac.Equal(got, s.serverSig).
Verify(sig) == sig = scram.sig

\* AuthSASL: PickMechanism, NewSCRAM with a nonce of its own, ClientFirst.
ReadSASL ==
    /\ Reading("sasl") /\ PickMechanism(Head(inbox).mechanisms)
    /\ scram' = NewSCRAM
    /\ secure' = secure
    /\ Send([type |-> "first", nonce |-> scram'.nonce])
    /\ UNCHANGED <<pc, err, attempt, cfg, pid, proven, sock, deadline, serverVars>>

\* AuthSASLContinue.
ReadContinue ==
    /\ Reading("continue") /\ scram # NoScram /\ ServerFirstOK(Head(inbox))
    /\ scram' = [scram EXCEPT !.sig = ClientFinal(Head(inbox)).sig]
    /\ secure' = secure
    /\ Send([type |-> "proof", proof |-> ClientFinal(Head(inbox)).proof])
    /\ UNCHANGED <<pc, err, attempt, cfg, pid, proven, sock, deadline, serverVars>>

\* AuthSASLFinal: Verify succeeds.
ReadFinal ==
    /\ Reading("final") /\ scram # NoScram /\ Verify(Head(inbox).sig)
    /\ proven' = Head(inbox).sig
    /\ UNCHANGED <<pc, err, attempt, cfg, scram, pid, netVars, up, serverVars>>

\* handleAuth refuses: no mechanism of ours, a SASL message without SASL, a
\* server-first that is malformed or does not extend the nonce, a signature
\* that does not verify, a short body or an unknown code.
AuthFails ==
    /\ \/ Reading("sasl") /\ ~PickMechanism(Head(inbox).mechanisms)
       \/ Reading("continue") /\ (scram = NoScram \/ ~ServerFirstOK(Head(inbox)))
       \/ Reading("final") /\ (scram = NoScram \/ ~Verify(Head(inbox).sig))
       \/ Reading("short")
    /\ Fail("auth")

\* BackendKeyData, kept for SendCancel.
ReadKey ==
    /\ Reading("key") /\ pid' = Head(inbox).pid
    /\ UNCHANGED <<pc, err, attempt, cfg, scram, proven, netVars, up, serverVars>>

\* ErrorResponse, or a message type startup does not know.
ReadError ==
    \/ Reading("error") /\ Fail("pg")
    \/ Reading("odd") /\ Fail("protocol")

\* Variant for a mutation run: the handshake deadline stays set.
ClearedDeadlineKept == deadline

\* SetDeadline(time.Time{})
ClearedDeadline == "none"

\* ReadyForQuery: startup returns and Open hands the Client out.
ReadReady ==
    /\ Reading("ready")
    /\ pc' = "client" /\ deadline' = ClearedDeadline
    /\ UNCHANGED <<err, attempt, cfg, scram, pid, proven, sock, secure, clear, up, serverVars>>

\* A read or a write of the handshake fails: the deadline, or EOF.
IOFails ==
    /\ pc \in {"sslreply", "auth"}
    /\ deadline = "past" \/ (srv = "gone" /\ inbox = <<>>)
    /\ Fail("io") /\ UNCHANGED inbox

\* Client.Close.
Close ==
    /\ pc = "client" /\ pc' = "idle" /\ sock' = "closed" /\ inbox' = <<>>
    /\ UNCHANGED <<err, attempt, cfg, scram, pid, proven, deadline, secure, clear, up, serverVars>>

\* Time reaches the deadline.
DeadlinePasses ==
    /\ sock = "open" /\ deadline = "armed" /\ deadline' = "past"
    /\ UNCHANGED <<clientVars, sock, secure, clear, up, inbox, serverVars>>

-----------------------------------------------------------------------------
(* The server *)

Serve(t) ==
    /\ sock = "open" /\ up # <<>> /\ Head(up).type = t
    /\ up' = Tail(up)
    /\ UNCHANGED <<clientVars, netVars, peer>>

Answer(ms, next) ==
    /\ inbox' = inbox \o ms /\ srv' = next
    /\ finished' = (srv = "proof" /\ ms[1].type = "final")

\* The messages after authentication: AuthenticationOk, ParameterStatus,
\* perhaps BackendKeyData, ReadyForQuery; or an error such as an unknown
\* database.
Welcomes ==
    LET key == [type |-> "key", pid |-> attempt] IN
    { <<Msg("ignored"), Msg("ignored"), key, Msg("ready")>>,
      <<Msg("ignored"), Msg("ready")>> }
Rejections == { <<Msg("error")>>, <<Msg("ignored"), Msg("error")>> }

Welcome == \E ms \in Welcomes : Answer(ms, "ready")
Reject == \E ms \in Rejections : Answer(ms, "gone")
Judge(right) == IF right THEN Welcome ELSE Reject

ServeSSLRequest ==
    /\ srv = "fresh" /\ Serve("SSLRequest")
    /\ \/ Answer(<<Msg("S")>>, "tls")
       \/ Answer(<<Msg("N")>>, "fresh")
       \/ \E t \in {"E", "odd"} : Answer(<<Msg(t)>>, "gone")

\* What the server asks for first, and what startup must refuse.
Requests ==
    { [type |-> "password", salt |-> "none"], [type |-> "md5", salt |-> "md5salt"],
      [type |-> "sasl", mechanisms |-> {"SCRAM-SHA-256", "SCRAM-SHA-256-PLUS"}],
      [type |-> "sasl", mechanisms |-> {"SCRAM-SHA-256-PLUS"}] }
Oddities ==
    { Msg("odd"), Msg("short"), [type |-> "continue", nonce |-> <<1, "srv">>, salt |-> "salt"],
      [type |-> "final", sig |-> <<>>] }

ServeStartup ==
    /\ srv = "fresh" /\ Serve("startup")
    /\ \/ Welcome \/ Reject
       \/ \E m \in Requests : Answer(<<m>>, "auth")
       \/ \E m \in Oddities : Answer(<<m>>, "gone")

ServePassword ==
    /\ srv = "auth"
    /\ \/ Serve("password") /\ Judge(Head(up).credential = <<peer.password>>)
       \/ Serve("md5") /\ Judge(Head(up).credential = MD5Password(peer.password, "md5salt"))

\* The server-finals a server may send, at any time: none; an empty signature;
\* the one of this exchange made with the password the server holds; the right
\* one of an earlier call.
Finals ==
    LET Final(sig) == <<[type |-> "final", sig |-> sig]>> IN
    {<<>>, Final(<<>>), Final(Signature("server", peer.password, <<attempt, "srv">>, "salt")),
     Final(Signature("server", cfg.password, <<attempt - 1, "srv">>, "salt"))}

\* A server-first that extends the nonce, that does not, or that lacks its salt;
\* or a server that leaves it out.
ServeFirst ==
    /\ srv = "auth" /\ Serve("first")
    /\ \E f \in Finals :
         \/ \E n \in {Head(up).nonce, 0}, salt \in {"salt", ""} :
              Answer(f \o <<[type |-> "continue", nonce |-> <<n, "srv">>, salt |-> salt]>>,
                     "proof")
         \/ \E ms \in Welcomes : Answer(f \o ms, "ready")

\* PostgreSQL rejects a wrong proof; another server may not look at it.
ServeProof ==
    /\ srv = "proof" /\ Serve("proof")
    /\ \/ Head(up).proof # Signature("client", peer.password, <<attempt, "srv">>, "salt") /\ Reject
       \/ \E f \in Finals, ms \in Welcomes : Answer(f \o ms, "ready")

\* The server or the network dies; what was sent may be lost.
ServerDies ==
    /\ sock = "open" /\ srv # "gone" /\ srv' = "gone"
    /\ \E n \in 0..Len(inbox) : inbox' = SubSeq(inbox, 1, n)
    /\ UNCHANGED <<clientVars, netVars, up, peer, finished>>

-----------------------------------------------------------------------------
Peers == [cert: Certificates, password: Passwords]

ClientStep ==
    \/ ReplyS \/ HandshakeOK \/ HandshakeFails \/ ReplyN \/ ReplyFails
    \/ ReadIgnored \/ ReadPasswordRequest \/ ReadSASL \/ ReadContinue \/ ReadFinal
    \/ AuthFails \/ ReadKey \/ ReadError \/ ReadReady \/ IOFails

ServerStep ==
    \/ ServeSSLRequest \/ ServeStartup \/ ServePassword \/ ServeFirst \/ ServeProof
    \/ ServerDies

Next ==
    \/ \E c \in Configs, p \in Peers : Open(c, p) \/ DialFails(c, p)
    \/ ClientStep \/ Close \/ DeadlinePasses \/ ServerStep

\* Open's goroutine runs, and time reaches a deadline that is set; the server
\* may stall for ever.
Spec == Init /\ [][Next]_vars /\ WF_vars(ClientStep) /\ WF_vars(DeadlinePasses)

-----------------------------------------------------------------------------
(* Properties *)

\* The variables keep their types: an error exactly where Open returned one.
TypeOK ==
    /\ pc \in {"idle", "sslreply", "handshake", "auth", "client", "error"}
    /\ (err # "none") <=> (pc = "error")
    /\ attempt \in 0..MaxOpens /\ cfg \in Configs /\ peer \in Peers
    /\ sock \in {"none", "open", "closed"} /\ deadline \in {"none", "armed", "past"}
    /\ secure \in BOOLEAN /\ pid \in 0..MaxOpens
    /\ srv \in {"none", "fresh", "tls", "auth", "proof", "ready", "gone"}
    /\ finished \in BOOLEAN

\* Open returns all or nothing: a Client whose socket is open, carries no
\* deadline that would later cut off a query, and has nothing unread or
\* unanswered on it (every reader of query.go starts from there); or an
\* error, and then no socket stays open.
HandoverIsClean ==
    /\ pc = "client" => /\ sock = "open" /\ deadline = "none"
                         /\ inbox = <<>> /\ up = <<>>
                         /\ pid \in {0, attempt}
    /\ pc \in {"idle", "error"} => sock # "open"

\* config.go: SSLRequire and the verify modes demand TLS without fallback,
\* so nothing but the SSLRequest ever leaves in the clear, on any path
\* through refusal, error and retry; verify-full means the right host.
TLSPolicyHolds ==
    /\ cfg.mode >= SSLRequire => clear \subseteq {"SSLRequest"}
    /\ cfg.mode = SSLVerifyFull /\ secure => peer.cert = "good"
    /\ cfg.mode = SSLDisable => ~secure /\ "SSLRequest" \notin clear

\* scram.go, Verify: the signature it accepts was made with the client's own
\* password over the nonce of this very call, so the server holds the password;
\* and a Client of a server that answered the proof with a SASLFinal has
\* verified it.  handleAuth does not wait for that message: a server that leaves
\* it out, or sends an empty one before its server-first, when there is nothing
\* yet to compare it with (scram.go:118), is given a Client all the same
\* (conn.go:284-285, 305-306), though ClientFinal's comment says that Verify
\* must be called.  Nothing is said of such a Client.
MutualAuth ==
    /\ proven # <<>> =>
        /\ peer.password = cfg.password
        /\ proven = Signature("server", cfg.password, <<attempt, "srv">>, "salt")
    /\ pc = "client" /\ finished => proven # <<>>

\* Open returns whatever the server does, even with a ctx that has no
\* deadline and a server that accepts the connection and never speaks.
OpenReturns ==
    pc \in {"sslreply", "handshake", "auth"} ~> pc \in {"client", "error"}
=============================================================================
