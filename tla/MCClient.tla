------------------------------ MODULE MCClient ------------------------------
(***************************************************************************)
(* Instances of Client: which goroutine calls which methods, how often.    *)
(***************************************************************************)
EXTENDS Client

CONSTANTS poller, main, other, ch1, f1

(* One goroutine connects and polls, the others publish: the use that the  *)
(* comment of Poll asks for.                                               *)
PollAndPublish ==
  [g \in Goroutines |-> IF g = poller THEN {"Connect", "Poll"}
                        ELSE {"Publish"}]

(* examples/minimal/main.go: the goroutine that polls also keeps alive. *)
PollAndKeepAlive ==
  [g \in Goroutines |-> IF g = poller THEN {"Connect", "Poll", "KeepAlive"}
                        ELSE {"Publish"}]

(* Every method, and two goroutines that poll. *)
Everything ==
  [g \in Goroutines |->
     IF g = poller THEN {"Connect", "Poll"}
     ELSE IF g = main
       THEN {"Publish", "KeepAlive", "Unsubscribe", "Disconnect"}
     ELSE {"Poll", "Subscribe"}]

(* The main goroutine publishes, subscribes and unsubscribes. *)
PollAndUse ==
  [g \in Goroutines |-> IF g = poller THEN {"Connect", "Poll"}
                        ELSE {"Publish", "Subscribe", "Unsubscribe"}]

(* What Subscribe is called with: a topic with a channel of its own; or    *)
(* topics with no channel, and, by mistake, with the same channel.         *)
OneChannel == {<< <<f1, ch1>> >>}
SameChannel == {<< <<f1, NoChannel>>, <<f1, ch1>>, <<f1, ch1>> >>}

Once == [g \in Goroutines |-> 1]
Twice == [g \in Goroutines |-> 2]
ConnectThenTwo == [g \in Goroutines |-> IF g = poller THEN 1 ELSE 2]
ConnectThenFour == [g \in Goroutines |-> IF g = poller THEN 1 ELSE 4]
=============================================================================
