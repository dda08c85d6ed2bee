------------------------------- MODULE Mailbox -------------------------------
(***************************************************************************)
(* What a message looper promises: messages are numbered as they are put,  *)
(* taken one at a time and in that order, answered at most once, and never *)
(* lost unless they are dropped on purpose while they are pending.         *)
(***************************************************************************)
EXTENDS Integers, Sequences

CONSTANTS
    MaxPuts,   \* bound on the number of messages
    Answers,   \* what an answer may be
    NoAnswer   \* no answer yet

VARIABLES
    puts,      \* how many messages have been put
    pending,   \* the messages put and not taken, in order
    active,    \* the message taken and not answered, 0 when there is none
    answer     \* the answer of each message

mvars == <<puts, pending, active, answer>>

MInit ==
    /\ puts = 0
    /\ pending = << >>
    /\ active = 0
    /\ answer = [i \in 1..MaxPuts |-> NoAnswer]

Put ==
    /\ puts < MaxPuts
    /\ puts' = puts + 1
    /\ pending' = Append(pending, puts + 1)
    /\ UNCHANGED <<active, answer>>

Take ==
    /\ active = 0
    /\ pending # << >>
    /\ active' = Head(pending)
    /\ pending' = Tail(pending)
    /\ UNCHANGED <<puts, answer>>

Answer ==
    /\ active # 0
    /\ answer[active] = NoAnswer
    /\ \E a \in Answers : answer' = [answer EXCEPT ![active] = a]
    /\ active' = 0
    /\ UNCHANGED <<puts, pending>>

Drop ==
    /\ pending' = << >>
    /\ UNCHANGED <<puts, active, answer>>

MNext == Put \/ Take \/ Answer \/ Drop

MSpec == MInit /\ [][MNext]_mvars
=============================================================================
