----------------------------- MODULE RemoteCall ------------------------------
(***************************************************************************)
(* What a connection to the display server should be for its client: a     *)
(* procedure call.  One request at a time is under way, the server answers *)
(* it once, and the caller comes back with the answer to its own request,  *)
(* or with Broken if the server went down before.                          *)
(***************************************************************************)
CONSTANTS
  Request,   \* what may be asked
  Idle,      \* no request
  Answer,    \* the result of each request that has one
  Unknown,   \* what a caller may hold while its request is under way
  Broken     \* the result when the server went down

VARIABLES
  call,      \* the request under way, or Idle
  answered,  \* the server has answered it
  up,        \* the server runs
  result     \* what the caller got last

CallInit == call = Idle /\ ~answered /\ up

Ask == /\ call = Idle
       /\ up
       /\ call' \in Request
       /\ result' \in {result, Unknown}
       /\ UNCHANGED <<answered, up>>

Serve == /\ call # Idle
         /\ up
         /\ ~answered
         /\ answered' = TRUE
         /\ UNCHANGED <<call, up, result>>

Return == /\ call # Idle
          /\ answered \/ ~up
          /\ result' = IF call \notin DOMAIN Answer THEN result
                       ELSE IF answered THEN Answer[call] ELSE Broken
          /\ call' = Idle
          /\ answered' = FALSE
          /\ UNCHANGED up

\* The caller dies.
Abandon == /\ call' = Idle
           /\ answered' = FALSE
           /\ UNCHANGED <<up, result>>

Crash == up' = FALSE /\ UNCHANGED <<call, answered, result>>

CallNext == Ask \/ Serve \/ Return \/ Abandon \/ Crash
            \/ UNCHANGED <<call, answered, up, result>>
=============================================================================
