-------------------------- MODULE BackspaceCounter --------------------------
(***************************************************************************)
(* The counting service of c/backspace-counter: a thread that reads key    *)
(* events from an input device and counts in a global int (bkd.c), and the *)
(* main thread that answers D-Bus calls with it (dbus-service.c).  The     *)
(* device, the user at it and the callers are the environment.             *)
(***************************************************************************)
EXTENDS Integers, Sequences, FiniteSets

CONSTANTS
    IntHalf,     \* the ints are -IntHalf..IntHalf-1
    Messages,    \* what callers send; D-Bus lets a call name no interface
    Faults,      \* subset of {"startup", "EINTR", "EIO"}
    MaxEvents,   \* bound on the device's events
    MaxCalls     \* bound on the callers' messages

ASSUME BkdAssumption ==
    /\ IntHalf \in Nat \ {0}
    /\ Messages \subseteq {"Introspect", "GetBackspaceCount", "OtherMember", "NoInterface"}
    /\ Faults \subseteq {"startup", "EINTR", "EIO"}
    /\ MaxEvents \in Nat /\ MaxCalls \in Nat

VARIABLES
    main,      \* "start", "bus", "serve" or "exited"
    detector,  \* "none", "read", "count" or "ended"
    device,    \* events that read() has not returned yet
    ev,        \* the event in the detector's hands
    counter,
    calls,     \* messages that wait in the connection
    replies,   \* what callers got: [to, count, read]; read, the events read, is history
    happened   \* history: the device's events so far

vars == <<main, detector, device, ev, counter, calls, replies, happened>>
---------------------------------------------------------------------------
Wrap_Unbounded(n) == n

\* Additions of ints wrap around.
Wrap(n) == ((n + IntHalf) % (2 * IntHalf)) - IntHalf

\* Values of the backspace key's events, and any event of another key.
Released == 0
Pressed == 1
Repeated == 2
OtherKey == 9
Events == {Released, Pressed, Repeated, OtherKey}

Counted(e) == e >= 1 /\ e <= 2

\* How many of the events of s are counted.
NrCounted(s) == Cardinality({i \in DOMAIN s : Counted(s[i])})

\* The events that read() has returned.
ReadEvents == SubSeq(happened, 1, Len(happened) - Len(device))

\* An event reaches the device once it is open.
KeyEvent ==
    /\ detector # "none"
    /\ Len(happened) < MaxEvents
    /\ \E e \in Events :
          /\ device' = Append(device, e)
          /\ happened' = Append(happened, e)
    /\ UNCHANGED <<main, detector, ev, counter, calls, replies>>

CallArrives ==
    /\ main = "serve"
    /\ Len(calls) + Len(replies) < MaxCalls
    /\ \E msg \in Messages : calls' = Append(calls, msg)
    /\ UNCHANGED <<main, detector, device, ev, counter, replies, happened>>
---------------------------------------------------------------------------
(* The detector thread.                                                    *)

\* read() in backspace_detector, and the test of what it returned.
backspace_detector ==
    /\ detector = "read"
    /\ \/ /\ device # <<>>
          /\ ev' = Head(device)
          /\ device' = Tail(device)
          /\ detector' = IF Counted(ev') THEN "count" ELSE "read"
       \/ /\ "EIO" \in Faults
          /\ detector' = "ended"
          /\ UNCHANGED <<ev, device>>
    /\ UNCHANGED <<main, counter, calls, replies, happened>>

Interrupted_OldEvent ==
    /\ detector = "read"
    /\ "EINTR" \in Faults
    /\ detector' = IF Counted(ev) THEN "count" ELSE "read"
    /\ UNCHANGED <<main, device, ev, counter, calls, replies, happened>>

\* A signal interrupts read(), which is called again.
Interrupted ==
    /\ detector = "read"
    /\ "EINTR" \in Faults
    /\ UNCHANGED vars

count ==
    /\ detector = "count"
    /\ counter' = Wrap(counter + 1)
    /\ detector' = "read"
    /\ UNCHANGED <<main, device, ev, calls, replies, happened>>
---------------------------------------------------------------------------
(* The main thread.                                                        *)

\* bkd_start_daemon, with the setuid call on either side of it.
bkd_start_daemon ==
    /\ main = "start"
    /\ \/ main' = "bus" /\ detector' = "read"
       \/ /\ "startup" \in Faults
          /\ main' = "exited"
          /\ UNCHANGED detector
    /\ UNCHANGED <<device, ev, counter, calls, replies, happened>>

\* Connecting to the bus; an error ends the process, the thread with it.
register ==
    /\ main = "bus"
    /\ \/ main' = "serve" /\ UNCHANGED detector
       \/ /\ "startup" \in Faults
          /\ main' = "exited"
          /\ detector' = "ended"
    /\ UNCHANGED <<device, ev, counter, calls, replies, happened>>

bkd_get_current_count_Clears == counter' = 0

bkd_get_current_count == UNCHANGED counter

Serving_WithDetector == main = "serve" /\ detector \in {"read", "count"}

\* main's dispatch loop, which does not look at the thread.
Serving == main = "serve"

\* tutorial_messages; what it does not handle the bus library answers. strcmp
\* crashes on the NULL that stands for the interface a message does not name.
tutorial_messages ==
    /\ Serving
    /\ calls # <<>>
    /\ \/ /\ Head(calls) = "GetBackspaceCount"
          /\ calls' = Tail(calls)
          /\ replies' = Append(replies, [to |-> Head(calls), count |-> counter,
                                        read |-> ReadEvents])
          /\ bkd_get_current_count
          /\ UNCHANGED <<main, detector>>
       \/ /\ Head(calls) \notin {"GetBackspaceCount", "NoInterface"}
          /\ calls' = Tail(calls)
          /\ replies' = Append(replies, [to |-> Head(calls)])
          /\ UNCHANGED <<main, detector, counter>>
       \/ /\ Head(calls) = "NoInterface"
          /\ main' = "exited" /\ detector' = "ended"
          /\ UNCHANGED <<calls, replies, counter>>
    /\ UNCHANGED <<device, ev, happened>>

Init ==
    /\ main = "start"
    /\ detector = "none"
    /\ device = <<>>
    /\ ev = OtherKey
    /\ counter = 0
    /\ calls = <<>>
    /\ replies = <<>>
    /\ happened = <<>>

Detector == backspace_detector \/ count
Service == bkd_start_daemon \/ register \/ tutorial_messages

Next == Detector \/ Interrupted \/ Service \/ KeyEvent \/ CallArrives

Spec == Init /\ [][Next]_vars

\* Two threads that the kernel runs whenever they can run.
FairSpec == Spec /\ WF_vars(Detector) /\ WF_vars(Service)
---------------------------------------------------------------------------
TypeOK ==
    /\ main \in {"start", "bus", "serve", "exited"}
    /\ detector \in {"none", "read", "count", "ended"}
    /\ ev \in Events
    /\ counter \in (-IntHalf)..(IntHalf - 1)
    /\ Len(device) <= Len(happened) /\ Len(happened) <= MaxEvents
    /\ Len(calls) + Len(replies) <= MaxCalls
    /\ main = "serve" => detector # "none"

IsCount(r) == r.to = "GetBackspaceCount"

\* A reply counts the presses and repetitions that read() has returned, all of
\* them or all but the one the thread has not added yet, modulo the int's
\* width, however the two threads interleave.
RepliesCount ==
    \A i \in DOMAIN replies : IsCount(replies[i]) =>
        LET n == NrCounted(replies[i].read)
        IN  \/ replies[i].count = Wrap(n)
            \/ n > 0 /\ replies[i].count = Wrap(n - 1)

\* Counts never go back from one reply to the next as long as fewer events
\* were counted than an int can hold.
RepliesGrow ==
    NrCounted(happened) < IntHalf =>
        \A i, j \in DOMAIN replies :
            i < j /\ IsCount(replies[i]) /\ IsCount(replies[j]) => replies[i].count <= replies[j].count

\* What callers have asked so far, in order.
Asked == [i \in DOMAIN replies |-> replies[i].to] \o calls

\* Every call is answered, also when the detector thread has ended, unless it
\* or a call before it names no interface and so ends the service.
CallsAnswered ==
    \A n \in 1..MaxCalls :
        Len(Asked) >= n /\ (\A i \in 1..n : Asked[i] # "NoInterface") ~> Len(replies) >= n
=============================================================================
