------------------------- MODULE MCRemoteSmartcard -------------------------
(* Instances of RemoteSmartcard for TLC. *)
EXTENDS RemoteSmartcard, TLC

(* Ids and requests are only compared.  Sound for the safety runs. *)
Interchangeable ==
    Permutations(SessionIds) \cup Permutations(Conns)
        \cup Permutations(Requests \ AtrRequests)

(* A session for each connection, to begin with.                            *)
OwnSession == CHOOSE f \in [Conns -> SessionIds] : \A c, d \in Conns : f[c] = f[d] => c = d

Owned == {OwnSession[c] : c \in Conns}

OneConn == CHOOSE c \in Conns : TRUE

(* One client on its own, with one session id left to be drawn: the others  *)
(* belonged to an earlier server process, and the other clients are gone.   *)
AloneInit ==
    /\ sessions = {} /\ issued = SessionIds \ {OwnSession[OneConn]}
    /\ readers = [s \in SessionIds |-> [r \in Readers |-> "unknown"]]
    /\ channel = [s \in SessionIds |-> NoConn]
    /\ pending = [s \in SessionIds |-> {}] /\ nextId = 1
    /\ lock = NoWorker
    /\ handler = [c \in Conns |-> "none"] /\ rx = [c \in Conns |-> FALSE]
    /\ stream = [c \in Conns |-> "none"] /\ queue = [c \in Conns |-> << >>]
    /\ worker = [w \in Workers |-> StoppedWorker]
    /\ Virtual!Init
    /\ client = [c \in Conns |-> [pc |-> IF c = OneConn THEN "start" ELSE "gone",
                                   sid |-> NoSession, todo |-> Readers, cmd |-> NoCmd]]
    /\ inflight = {} /\ faults = 0
    /\ asked = [w \in Workers |-> << >>] /\ ran = [w \in Workers |-> << >>]

(* Every connection has a session of its own, its readers are registered,   *)
(* its channel is served and vpcd serves its vpcd clients; but the host of  *)
(* one client has just gone away without a word.  Setting up and one fault  *)
(* lead there; which client it is makes no difference.                      *)
EstablishedInit ==
    /\ sessions = Owned /\ issued = Owned
    /\ readers = [s \in SessionIds |->
                     [r \in Readers |-> IF s \in Owned THEN "empty_atr" ELSE "unknown"]]
    /\ channel = [s \in SessionIds |->
                     IF s \in Owned THEN CHOOSE c \in Conns : OwnSession[c] = s ELSE NoConn]
    /\ pending = [s \in SessionIds |-> {}] /\ nextId = 1
    /\ lock = NoWorker
    /\ handler = [c \in Conns |-> "serving"] /\ rx = [c \in Conns |-> TRUE]
    /\ stream = [c \in Conns |-> "open"] /\ queue = [c \in Conns |-> << >>]
    /\ worker = [w \in Workers |->
                    IF w[1] \in Owned THEN [StoppedWorker EXCEPT !.pc = "idle"]
                    ELSE StoppedWorker]
    /\ port = [w \in Workers |-> IF w[1] \in Owned THEN "up" ELSE "down"]
    /\ ask = [w \in Workers |-> NoReq]
    /\ answer = [q \in Requests |-> Virtual!Unanswered]
    /\ client = [c \in Conns |->
                    [pc |-> IF c = OneConn THEN "gone" ELSE "recv",
                     sid |-> OwnSession[c], todo |-> {}, cmd |-> NoCmd]]
    /\ inflight = {} /\ faults = 1
    /\ asked = [w \in Workers |-> << >>] /\ ran = [w \in Workers |-> << >>]

(* The requests are all alike, so it does not matter which is the first one *)
(* asked, which the second: what a symmetry would say, sound for liveness.  *)
InOrder == CHOOSE f \in [1 .. Cardinality(Requests) -> Requests] :
              \A i, j \in DOMAIN f : f[i] = f[j] => i = j

AskedInOrder ==
    \A i, j \in DOMAIN InOrder : i < j /\ Fresh(InOrder[i]) => Fresh(InOrder[j])

(* UntimedSpec from these two beginnings.                                   *)
AnswersSpec ==
    /\ AloneInit \/ EstablishedInit
    /\ [][Next /\ AskedInOrder']_vars
    /\ TaskFairness

=============================================================================
