---------------------------- MODULE ClientAttach ----------------------------
(***************************************************************************)
(* How the hub judges the first message of a client connection             *)
(* (ServeClientConn, internal/hub/hub.go, before it touches any shared     *)
(* state).  A constant-level module: it has operators and no variables.    *)
(*                                                                         *)
(* A token is what authorizeClient made of the request: the claims of a    *)
(* JWT, or NoClaims when the hub runs in tailnet mode and takes nobody's   *)
(* token.                                                                  *)
(***************************************************************************)
EXTENDS Integers

CONSTANTS Name,   \* the agent and session ids
          Blank   \* Go's empty string, one of them

ASSUME BlankAssumption == Blank \in Name

Claims == [agent : Name, session : Name, write : BOOLEAN]

NoClaims == [agent |-> Blank, session |-> Blank, write |-> FALSE]

\* claims.AgentID == "" && claims.SessionID == ""
Anonymous(token) == token.agent = Blank /\ token.session = Blank

\* The protocol the connection speaks: version 0 is an old client's 1.
Proto(msg) == IF msg.version = 0 THEN 1 ELSE msg.version

\* Who the client is from here on: a client without claims is taken at its
\* word, and only a version 1 client is tied to the session it names.
Claimed(token, msg) ==
    IF Anonymous(token)
    THEN [agent   |-> msg.agent,
          session |-> IF Proto(msg) < 2 THEN msg.session ELSE Blank,
          write   |-> TRUE]
    ELSE token

\* The error code the hub answers with before it closes, "ok" if it goes on.
AttachError(token, msg) ==
    LET claims == Claimed(token, msg)
    IN  CASE msg.type # "attach" -> "bad_request"
          [] msg.type = "attach" /\ msg.version \notin {0, 1, 2} -> "bad_version"
          [] OTHER ->
               IF Anonymous(token) /\ (msg.agent = Blank \/ msg.session = Blank)
               THEN "bad_request"
               ELSE IF \/ msg.agent # Blank /\ msg.agent # claims.agent
                       \/ /\ Proto(msg) < 2 \/ claims.session # Blank
                          /\ msg.session # claims.session
                    THEN "not_authorized"
                    ELSE "ok"
=============================================================================
