------------------------------- MODULE Queues -------------------------------
(***************************************************************************)
(* What the authentication and the game handler share: the clients they    *)
(* serve and the queues they post to each other (EventProcessor::putq).    *)
(***************************************************************************)
EXTENDS SessionStore

CONSTANTS Clients,      \* connections, each made once
          MaxSessions   \* bound on session tokens

Token == 0..MaxSessions

Held == Token \ {NoToken}

Reasons == {"no", "missing session", "null link", "not active", "destroyed session"}

VARIABLES authq,   \* the authentication handler's event queue
          gameq,   \* the game handler's event queue
          failed   \* why the process stopped, or "no"
=============================================================================
