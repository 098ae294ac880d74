--------------------------- MODULE OSMailBoxProofs ---------------------------
(***************************************************************************)
(* The mailbox is one slot, for any number of threads and any mail.  The   *)
(* argument is that of a token: the unit of BoxFree, the unit of           *)
(* BoxDataValid and the thread inside Send or Recv are the same token.     *)
(***************************************************************************)
EXTENDS OSMailBox, TLAPS

(* A waiting thread is at the OS_Wait of its call. *)
WaitersCall ==
  \A t \in Threads :
    /\ t \in waiting["BoxFree"] => call[t] = "store"
    /\ t \in waiting["BoxDataValid"] => call[t] = "read"

(* A sender carries mail, and what is in the box is mail. *)
MailIsMail ==
  /\ \A t \in Threads : call[t] = "store" => arg[t] \in Mails
  /\ Occupied => Mail \in Mails

IInv == TypeOK /\ WaitersCall /\ OneUser /\ MailIsMail

(* What OS_Wait does to the two semaphores of the mailbox. *)
WaitEffect(t, s) ==
  \/ /\ units[s] > 0
     /\ units' = [units EXCEPT ![s] = @ - 1]
     /\ waiting' = waiting
  \/ /\ units[s] = 0
     /\ t \notin waiting["BoxFree"] \cup waiting["BoxDataValid"]
     /\ waiting' = [waiting EXCEPT ![s] = @ \cup {t}]
     /\ units' = units

(* What OS_Signal does to them. *)
SignalEffect(s) ==
  \/ /\ waiting[s] = {}
     /\ units' = [units EXCEPT ![s] = @ + 1]
     /\ waiting' = waiting
  \/ \E u \in Threads :
       /\ u \in waiting[s]
       /\ waiting' = [waiting EXCEPT ![s] = @ \ {u}]
       /\ units' = units

(* The semaphore actions of CountingSemaphore, in the terms of this module. *)
LEMMA SemaphoreEffects ==
  ASSUME NEW s \in {"BoxFree", "BoxDataValid"}
  PROVE  /\ \A t \in Threads : OS_Wait(t, s) => WaitEffect(t, s)
         /\ OS_Signal(s) => SignalEffect(s)
<1>1. s \in Semaphores /\ {"BoxFree", "BoxDataValid"} \subseteq Semaphores
  BY MailBoxAssumption
<1>2. ASSUME NEW t \in Threads, OS_Wait(t, s) PROVE WaitEffect(t, s)
  BY <1>1, <1>2 DEF OS_Wait, WaitEffect, Semaphore!Take, Semaphore!Join
<1>3. OS_Signal(s) => SignalEffect(s)
  BY <1>1 DEF OS_Signal, SignalEffect, Semaphore!Release, Semaphore!HandOver
<1> QED BY <1>2, <1>3

(* The mailbox starts empty and free. *)
LEMMA InitInv == OS_MailBox_Init => IInv
<1> SUFFICES ASSUME OS_MailBox_Init PROVE IInv
  OBVIOUS
<1>1. /\ units = InitialValue
      /\ waiting = [s \in Semaphores |-> {}]
      /\ Mail = NoMail
      /\ call = [t \in Threads |-> "none"]
      /\ arg = [t \in Threads |-> NoMail]
      /\ received = [t \in Threads |-> NoMail]
  BY DEF OS_MailBox_Init, Semaphore!Init
<1>2. units["BoxFree"] = 1 /\ units["BoxDataValid"] = 0
      /\ waiting["BoxFree"] = {} /\ waiting["BoxDataValid"] = {}
  BY <1>1, MailBoxAssumption DEF InitialValue
<1>3. TypeOK
  BY <1>1 DEF TypeOK, InitialValue
<1>4. WaitersCall
  BY <1>2 DEF WaitersCall
<1>5. OneUser
  BY <1>1, <1>2 DEF OneUser, Inside
<1>6. MailIsMail
  BY <1>1, <1>2 DEF MailIsMail, Occupied, PastWait
<1> QED BY <1>3, <1>4, <1>5, <1>6 DEF IInv

(* A step of a thread in Send keeps the invariant and deposits mail in an
   empty box or leaves the box alone. *)
LEMMA SendSteps ==
  ASSUME IInv, NEW t \in Threads,
         (\E m \in Mails : Send(t, m)) \/ SendStore(t) \/ SendSignal(t)
  PROVE  IInv' /\ [Box!Next]_Box!vars
<1> USE MailBoxAssumption
<1>t. TypeOK /\ WaitersCall /\ OneUser /\ MailIsMail
  BY DEF IInv
<1>1. ASSUME NEW m \in Mails, Send(t, m)
      PROVE  IInv' /\ [Box!Next]_Box!vars
  <2>1. /\ call[t] = "none"
        /\ WaitEffect(t, "BoxFree")
        /\ call' = [call EXCEPT ![t] = "store"]
        /\ arg' = [arg EXCEPT ![t] = m]
        /\ UNCHANGED <<Mail, received>>
    BY <1>1, SemaphoreEffects DEF Send
  <2>2. TypeOK'
    BY <2>1, <1>t DEF TypeOK, WaitEffect
  <2>3. WaitersCall'
    BY <2>1, <1>t DEF TypeOK, WaitEffect, WaitersCall
  <2>4. OneUser'
    <3>1. CASE /\ units["BoxFree"] > 0
               /\ units' = [units EXCEPT !["BoxFree"] = @ - 1]
               /\ waiting' = waiting
      <4>1. Inside = {} /\ units["BoxFree"] + units["BoxDataValid"] = 1
        BY <3>1, <1>t DEF TypeOK, OneUser
      <4>2. Inside' = {t}
        BY <4>1, <3>1, <2>1, <1>t DEF TypeOK, WaitersCall, Inside
      <4>3. units'["BoxFree"] + units'["BoxDataValid"] = 0
        BY <4>1, <3>1, <1>t DEF TypeOK
      <4> QED BY <4>2, <4>3 DEF OneUser
    <3>2. CASE /\ waiting' = [waiting EXCEPT !["BoxFree"] = @ \cup {t}]
               /\ units' = units
      <4>1. Inside' = Inside
        BY <3>2, <2>1, <1>t DEF TypeOK, Inside
      <4> QED BY <4>1, <3>2, <1>t DEF OneUser
    <3> QED BY <3>1, <3>2, <2>1 DEF WaitEffect
  <2>5. Occupied' <=> Occupied
    BY <2>1, <1>t DEF TypeOK, WaitEffect, WaitersCall, Occupied, PastWait
  <2>6. MailIsMail'
    BY <2>1, <2>5, <1>t DEF TypeOK, MailIsMail
  <2>7. UNCHANGED Box!vars
    BY <2>1, <2>5 DEF Box!vars
  <2> QED BY <2>2, <2>3, <2>4, <2>6, <2>7 DEF IInv
<1>2. CASE SendStore(t)
  <2>1. /\ call[t] = "store"
        /\ t \notin waiting["BoxFree"]
        /\ Mail' = arg[t]
        /\ call' = [call EXCEPT ![t] = "valid"]
        /\ UNCHANGED <<units, waiting, arg, received>>
    BY <1>2 DEF SendStore, MayStore
  <2>2. TypeOK'
    BY <2>1, <1>t DEF TypeOK
  <2>3. WaitersCall'
    BY <2>1, <1>t DEF TypeOK, WaitersCall
  <2>4. Inside = {t} /\ units["BoxFree"] + units["BoxDataValid"] = 0
    BY <2>1, <1>t DEF TypeOK, WaitersCall, OneUser, Inside
  <2>5. Inside' = Inside
    BY <2>1, <1>t DEF TypeOK, Inside
  <2>6. OneUser'
    BY <2>1, <2>4, <2>5 DEF OneUser
  <2>7. ~Occupied
    BY <2>1, <2>4, <1>t DEF TypeOK, Occupied, PastWait, Inside, WaitersCall
  <2>8. Occupied' /\ Mail' \in Mails
    BY <2>1, <1>t DEF TypeOK, Occupied, MailIsMail
  <2>9. MailIsMail'
    BY <2>1, <2>8, <1>t DEF TypeOK, MailIsMail
  <2>10. Box!Deposit(Mail')
    BY <2>1, <2>7, <2>8 DEF Box!Deposit
  <2> QED BY <2>2, <2>3, <2>6, <2>8, <2>9, <2>10 DEF IInv, Box!Next
<1>3. CASE SendSignal(t)
  <2>1. /\ call[t] = "valid"
        /\ SignalEffect("BoxDataValid")
        /\ call' = [call EXCEPT ![t] = "none"]
        /\ UNCHANGED <<Mail, arg, received>>
    BY <1>3, SemaphoreEffects DEF SendSignal
  <2>2. TypeOK'
    BY <2>1, <1>t DEF TypeOK, SignalEffect
  <2>3. WaitersCall'
    BY <2>1, <1>t DEF TypeOK, SignalEffect, WaitersCall
  <2>4. Inside = {t} /\ units["BoxFree"] + units["BoxDataValid"] = 0
    BY <2>1, <1>t DEF TypeOK, WaitersCall, OneUser, Inside
  <2>5. OneUser'
    <3>1. CASE /\ units' = [units EXCEPT !["BoxDataValid"] = @ + 1]
               /\ waiting' = waiting
      <4>1. Inside' = {}
        BY <3>1, <2>1, <2>4, <1>t DEF TypeOK, Inside
      <4>2. units'["BoxFree"] + units'["BoxDataValid"] = 1
        BY <3>1, <2>4, <1>t DEF TypeOK
      <4> QED BY <4>1, <4>2 DEF OneUser
    <3>2. ASSUME NEW u \in Threads, u \in waiting["BoxDataValid"],
                 waiting' = [waiting EXCEPT !["BoxDataValid"] = @ \ {u}],
                 units' = units
          PROVE  OneUser'
      <4>1. Inside' = {u}
        BY <3>2, <2>1, <2>4, <1>t DEF TypeOK, WaitersCall, Inside
      <4> QED BY <4>1, <3>2, <2>4 DEF OneUser
    <3> QED BY <3>1, <3>2, <2>1 DEF SignalEffect
  <2>6. Occupied /\ Occupied'
    BY <2>1, <2>4, <1>t DEF TypeOK, SignalEffect, WaitersCall, Occupied, PastWait
  <2>7. MailIsMail'
    BY <2>1, <2>6, <1>t DEF TypeOK, MailIsMail
  <2>8. UNCHANGED Box!vars
    BY <2>1, <2>6 DEF Box!vars
  <2> QED BY <2>2, <2>3, <2>5, <2>7, <2>8 DEF IInv
<1> QED BY <1>1, <1>2, <1>3

(* A step of a thread in Recv keeps the invariant and takes the mail out of
   the box or leaves the box alone. *)
LEMMA RecvSteps ==
  ASSUME IInv, NEW t \in Threads, Recv(t) \/ RecvRead(t) \/ RecvSignal(t)
  PROVE  IInv' /\ [Box!Next]_Box!vars
<1> USE MailBoxAssumption
<1>t. TypeOK /\ WaitersCall /\ OneUser /\ MailIsMail
  BY DEF IInv
<1>1. CASE Recv(t)
  <2>1. /\ call[t] = "none"
        /\ WaitEffect(t, "BoxDataValid")
        /\ call' = [call EXCEPT ![t] = "read"]
        /\ UNCHANGED <<Mail, arg, received>>
    BY <1>1, SemaphoreEffects DEF Recv
  <2>2. TypeOK'
    BY <2>1, <1>t DEF TypeOK, WaitEffect
  <2>3. WaitersCall'
    BY <2>1, <1>t DEF TypeOK, WaitEffect, WaitersCall
  <2>4. OneUser'
    <3>1. CASE /\ units["BoxDataValid"] > 0
               /\ units' = [units EXCEPT !["BoxDataValid"] = @ - 1]
               /\ waiting' = waiting
      <4>1. Inside = {} /\ units["BoxFree"] + units["BoxDataValid"] = 1
        BY <3>1, <1>t DEF TypeOK, OneUser
      <4>2. Inside' = {t}
        BY <4>1, <3>1, <2>1, <1>t DEF TypeOK, WaitersCall, Inside
      <4>3. units'["BoxFree"] + units'["BoxDataValid"] = 0
        BY <4>1, <3>1, <1>t DEF TypeOK
      <4> QED BY <4>2, <4>3 DEF OneUser
    <3>2. CASE /\ waiting' = [waiting EXCEPT !["BoxDataValid"] = @ \cup {t}]
               /\ units' = units
      <4>1. Inside' = Inside
        BY <3>2, <2>1, <1>t DEF TypeOK, Inside
      <4> QED BY <4>1, <3>2, <1>t DEF OneUser
    <3> QED BY <3>1, <3>2, <2>1 DEF WaitEffect
  <2>5. Occupied' <=> Occupied
    BY <2>1, <1>t DEF TypeOK, WaitEffect, WaitersCall, Occupied, PastWait
  <2>6. MailIsMail'
    BY <2>1, <2>5, <1>t DEF TypeOK, MailIsMail
  <2>7. UNCHANGED Box!vars
    BY <2>1, <2>5 DEF Box!vars
  <2> QED BY <2>2, <2>3, <2>4, <2>6, <2>7 DEF IInv
<1>2. CASE RecvRead(t)
  <2>1. /\ PastWait(t)
        /\ received' = [received EXCEPT ![t] = Mail]
        /\ call' = [call EXCEPT ![t] = "free"]
        /\ UNCHANGED <<Mail, units, waiting, arg>>
    BY <1>2 DEF RecvRead
  <2>2. Occupied
    BY <2>1 DEF Occupied
  <2>3. TypeOK'
    BY <2>1, <1>t DEF TypeOK
  <2>4. WaitersCall'
    BY <2>1, <1>t DEF TypeOK, WaitersCall, PastWait
  <2>5. Inside = {t} /\ units["BoxFree"] + units["BoxDataValid"] = 0
    BY <2>1, <1>t DEF TypeOK, WaitersCall, OneUser, Inside, PastWait
  <2>6. Inside' = Inside
    BY <2>1, <1>t DEF TypeOK, Inside, PastWait
  <2>7. OneUser'
    BY <2>1, <2>5, <2>6 DEF OneUser
  <2>8. ~Occupied'
    BY <2>1, <2>5, <1>t DEF TypeOK, Occupied, PastWait, Inside, WaitersCall
  <2>9. MailIsMail'
    BY <2>1, <2>8, <1>t DEF TypeOK, MailIsMail
  <2>10. Box!Collect(t)
    BY <2>1, <2>2, <2>8, <1>t DEF Box!Collect, MailIsMail
  <2> QED BY <2>3, <2>4, <2>7, <2>9, <2>10 DEF IInv, Box!Next
<1>3. CASE RecvSignal(t)
  <2>1. /\ call[t] = "free"
        /\ SignalEffect("BoxFree")
        /\ call' = [call EXCEPT ![t] = "none"]
        /\ UNCHANGED <<Mail, arg, received>>
    BY <1>3, SemaphoreEffects DEF RecvSignal
  <2>2. TypeOK'
    BY <2>1, <1>t DEF TypeOK, SignalEffect
  <2>3. WaitersCall'
    BY <2>1, <1>t DEF TypeOK, SignalEffect, WaitersCall
  <2>4. Inside = {t} /\ units["BoxFree"] + units["BoxDataValid"] = 0
    BY <2>1, <1>t DEF TypeOK, WaitersCall, OneUser, Inside
  <2>5. OneUser'
    <3>1. CASE /\ units' = [units EXCEPT !["BoxFree"] = @ + 1]
               /\ waiting' = waiting
      <4>1. Inside' = {}
        BY <3>1, <2>1, <2>4, <1>t DEF TypeOK, Inside
      <4>2. units'["BoxFree"] + units'["BoxDataValid"] = 1
        BY <3>1, <2>4, <1>t DEF TypeOK
      <4> QED BY <4>1, <4>2 DEF OneUser
    <3>2. ASSUME NEW u \in Threads, u \in waiting["BoxFree"],
                 waiting' = [waiting EXCEPT !["BoxFree"] = @ \ {u}],
                 units' = units
          PROVE  OneUser'
      <4>1. Inside' = {u}
        BY <3>2, <2>1, <2>4, <1>t DEF TypeOK, WaitersCall, Inside
      <4> QED BY <4>1, <3>2, <2>4 DEF OneUser
    <3> QED BY <3>1, <3>2, <2>1 DEF SignalEffect
  <2>6. Occupied' <=> Occupied
    BY <2>1, <2>4, <1>t DEF TypeOK, SignalEffect, WaitersCall, Occupied, PastWait
  <2>7. MailIsMail'
    BY <2>1, <2>6, <1>t DEF TypeOK, MailIsMail
  <2>8. UNCHANGED Box!vars
    BY <2>1, <2>6 DEF Box!vars
  <2> QED BY <2>2, <2>3, <2>5, <2>7, <2>8 DEF IInv
<1> QED BY <1>1, <1>2, <1>3

(* Every step keeps the invariant and is a step of the slot. *)
LEMMA StepInv == IInv /\ [Next]_vars => IInv' /\ [Box!Next]_Box!vars
<1> SUFFICES ASSUME IInv, [Next]_vars PROVE IInv' /\ [Box!Next]_Box!vars
  OBVIOUS
<1>1. CASE Next
  <2> SUFFICES ASSUME NEW t \in Threads,
                      \/ \E m \in Mails : Send(t, m)
                      \/ SendStore(t) \/ SendSignal(t)
                      \/ Recv(t) \/ RecvRead(t) \/ RecvSignal(t)
               PROVE  IInv' /\ [Box!Next]_Box!vars
    BY <1>1 DEF Next
  <2>1. CASE \E m \in Mails : Send(t, m)
    BY ONLY <2>1, IInv, SendSteps
  <2>2. CASE SendStore(t) \/ SendSignal(t)
    BY ONLY <2>2, IInv, SendSteps
  <2>3. CASE Recv(t) \/ RecvRead(t) \/ RecvSignal(t)
    BY ONLY <2>3, IInv, RecvSteps
  <2> QED BY <2>1, <2>2, <2>3
<1>2. CASE UNCHANGED vars
  <2>1. IInv'
    BY <1>2 DEF vars, IInv, TypeOK, WaitersCall, OneUser, Inside, MailIsMail,
                Occupied, PastWait
  <2>2. UNCHANGED Box!vars
    BY <1>2 DEF vars, Box!vars, Occupied, PastWait
  <2> QED BY <2>1, <2>2
<1> QED BY <1>1, <1>2

(* OS_MailBox_Send and OS_MailBox_Recv admit one user of Mail at a time: the
   two semaphores and the thread inside pass one token around. *)
THEOREM OneUserOfMail == Spec => []OneUser
<1>1. OS_MailBox_Init => IInv
  BY InitInv
<1>2. IInv /\ [Next]_vars => IInv'
  BY StepInv
<1>3. IInv => OneUser
  BY DEF IInv
<1> QED BY <1>1, <1>2, <1>3, PTL DEF Spec

(* The mailbox of OS.c implements one slot: mail enters an empty slot only and
   is read by exactly one receiver. *)
THEOREM MailBoxImplemented == Spec => ImplementsBox
<1>1. OS_MailBox_Init => IInv
  BY InitInv
<1>2. IInv /\ [Next]_vars => IInv' /\ [Box!Next]_Box!vars
  BY StepInv
<1>3. OS_MailBox_Init => Box!Init
  <2> SUFFICES ASSUME OS_MailBox_Init PROVE Box!Init
    OBVIOUS
  <2>1. /\ Mail = NoMail
        /\ received = [t \in Threads |-> NoMail]
    BY DEF OS_MailBox_Init
  <2> QED BY <2>1 DEF Box!Init
<1> QED BY <1>1, <1>2, <1>3, PTL DEF Spec, ImplementsBox, Box!Spec
=============================================================================
