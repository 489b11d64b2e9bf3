------------------------------- MODULE IpmbPoll ------------------------------
(***************************************************************************)
(* A sensor behind IPMB (src/src/ipmb/IpmbSensor.cpp, IpmbSensorMain.cpp). *)
(* It is read by calls of the IPMB daemon.  A sensor starts with a call    *)
(* and with the timer of the next one, an answer starts the timer anew,    *)
(* and a handler that the timer has queued is not taken back: calls        *)
(* overlap when the device is slow.  Some sensors need a command before    *)
(* they tell their reading, and need it again when the host comes on.      *)
(***************************************************************************)
EXTENDS Integers

CONSTANTS
    IpmbFormats,    \* ReadingFormat of the sensor
    Words,          \* the 16 bits a device may tell
    MaxIpmbEvents   \* bound: power and configuration changes, and commands that fail

UInt16 == 0 .. 65535
SInt16 == {n \in Int : -32768 <= n /\ n <= 32767}
AllOnes == 65535

IpmbAssumption ==
    /\ IpmbFormats \subseteq {"nineBit", "tenBit", "fifteenBit", "linearElevenBit"}
    /\ IpmbFormats # {} /\ Words \subseteq UInt16 /\ Words # {} /\ MaxIpmbEvents \in Nat

VARIABLES
    format,
    word,           \* what the device would tell
    ipmbHost,       \* the host is on
    ipmbCalls,      \* calls without an answer
    waitArmed,      \* waitTimer waits,
    waitQueued,     \* and handlers of it that are queued
    initWait,       \* initCmdTimer: "armed", "queued"
    ipmbShown,      \* the sensor's value, as a set: empty if it has none
    toInit,         \* history: the host came on since the device had its command
    ipmbEvents

ipmbVars == <<format, word, ipmbHost, ipmbCalls, waitArmed, waitQueued, initWait, ipmbShown, toInit,
              ipmbEvents>>

StartWith(f, w) ==
    /\ format = f /\ word = w /\ ipmbHost = FALSE
    /\ ipmbCalls = 0 /\ waitArmed = TRUE /\ waitQueued = 0
    /\ initWait = {} /\ ipmbShown = {} /\ toInit = FALSE /\ ipmbEvents = 0
Start == StartWith(CHOOSE f \in IpmbFormats : TRUE, CHOOSE w \in Words : TRUE)
Init == \E f \in IpmbFormats, w \in Words : StartWith(f, w)

Happens == ipmbEvents < MaxIpmbEvents /\ ipmbEvents' = ipmbEvents + 1

-----------------------------------------------------------------------------
(* processReading: the bits of the format out of two bytes, in arithmetic  *)
(* of 16 bits.  All ones mean that there is no reading, in the formats     *)
(* that say so.                                                            *)
Low(w) == w % 256
High(w) == w \div 256
Int16(n) == IF n % 65536 >= 32768 THEN (n % 65536) - 65536 ELSE n % 65536

Missing(w) == format # "linearElevenBit" /\ w = AllOnes

Decoded(w) ==
    CASE format = "nineBit" -> IF High(w) % 2 = 1 THEN Int16(65280 + Low(w)) ELSE Low(w)
      [] format = "tenBit" -> (High(w) % 4) * 256 + Low(w)
      [] format = "fifteenBit" -> (High(w) % 128) * 256 + Low(w)
      [] format = "linearElevenBit" -> Int16(w * 32) \div 32

-----------------------------------------------------------------------------
(* read(): the timer starts anew, which takes back a wait but no handler.  *)
Read == waitArmed' = TRUE

(* sendIpmbRequest: without the power the reading asks for there is none.  *)
SendRequest ==
    \/ ipmbHost /\ ipmbCalls' = ipmbCalls + 1 /\ UNCHANGED <<waitArmed, ipmbShown>>
    \/ ~ipmbHost /\ Read /\ ipmbShown' = {} /\ UNCHANGED ipmbCalls

WaitExpires ==
    /\ waitArmed /\ waitArmed' = FALSE /\ waitQueued' = waitQueued + 1
    /\ UNCHANGED <<format, word, ipmbHost, ipmbCalls, initWait, ipmbShown, toInit, ipmbEvents>>

WaitHandler ==
    /\ waitQueued > 0 /\ waitQueued' = waitQueued - 1
    /\ SendRequest
    /\ UNCHANGED <<format, word, ipmbHost, initWait, toInit, ipmbEvents>>

(* ipmbRequestCompletionCb; errors go on until the tenth makes the value   *)
(* unknown, which is left to module Sensor.                                *)
Completion ==
    /\ ipmbCalls > 0 /\ ipmbCalls' = ipmbCalls - 1
    /\ Read
    /\ \/ ipmbShown' = IF ~ipmbHost THEN {} ELSE IF Missing(word) THEN ipmbShown ELSE {Decoded(word)}
       \/ UNCHANGED ipmbShown
    /\ UNCHANGED <<format, word, ipmbHost, waitQueued, initWait, toInit, ipmbEvents>>

(* runInitCmd: whether it was carried out is only logged.                  *)
RunInitCmd == toInit' = (toInit /\ ~ipmbHost)

(* init() of a sensor that a new configuration makes in the place of the   *)
(* old one, whose calls and waits go with it.                              *)
Recreate ==
    /\ Happens /\ RunInitCmd
    /\ waitQueued' = 0 /\ waitArmed' = TRUE
    /\ ipmbCalls' = IF ipmbHost THEN 1 ELSE 0
    /\ ipmbShown' = {}
    /\ UNCHANGED <<format, word, ipmbHost, initWait>>

(* reinitSensors: two seconds after the host came on. *)
InitExpires ==
    /\ "armed" \in initWait /\ initWait' = {"queued"}
    /\ UNCHANGED <<format, word, ipmbHost, ipmbCalls, waitArmed, waitQueued, ipmbShown, toInit, ipmbEvents>>

InitHandler ==
    /\ "queued" \in initWait /\ initWait' = initWait \ {"queued"}
    /\ RunInitCmd
    /\ UNCHANGED <<format, word, ipmbHost, ipmbCalls, waitArmed, waitQueued, ipmbShown, ipmbEvents>>

HostChanges ==
    /\ Happens /\ ipmbHost' = ~ipmbHost
    /\ \/ ipmbHost' /\ initWait' = initWait \cup {"armed"} /\ toInit' = TRUE
       \/ ~ipmbHost' /\ UNCHANGED <<initWait, toInit>>
    /\ UNCHANGED <<format, word, ipmbCalls, waitArmed, waitQueued, ipmbShown>>

WordChanges ==
    /\ Happens /\ word' \in Words
    /\ UNCHANGED <<format, ipmbHost, ipmbCalls, waitArmed, waitQueued, initWait, ipmbShown, toInit>>

Proceeds(k) ==
    \/ k = 1 /\ (WaitExpires \/ WaitHandler)
    \/ k = 2 /\ (InitExpires \/ InitHandler)
    \/ k = 3 /\ Completion
Next ==
    \/ WaitExpires \/ WaitHandler \/ InitExpires \/ InitHandler \/ Completion
    \/ Recreate \/ HostChanges \/ WordChanges
Spec == Init /\ [][Next]_ipmbVars /\ \A k \in 1 .. 3 : WF_ipmbVars(Proceeds(k))

-----------------------------------------------------------------------------
TypeOK ==
    /\ format \in IpmbFormats /\ word \in Words /\ ipmbHost \in BOOLEAN /\ toInit \in BOOLEAN
    /\ ipmbCalls \in 0 .. 2 /\ waitArmed \in BOOLEAN /\ waitQueued \in 0 .. 2
    /\ initWait \subseteq {"armed", "queued"}
    /\ ipmbShown \subseteq SInt16

(* Calls and waits give rise to each other: polling neither ends nor       *)
(* multiplies.                                                             *)
PollingGoesOn == ipmbCalls + waitQueued + (IF waitArmed THEN 1 ELSE 0) \in 1 .. 2

(* A value that is shown is the number the device meant, in two's          *)
(* complement where the format has a sign.                                 *)
Numbers == CASE format = "nineBit" -> 512 [] format = "tenBit" -> 1024
             [] format = "fifteenBit" -> 32768 [] format = "linearElevenBit" -> 2048
Signed == format \in {"nineBit", "linearElevenBit"}
Meant(w) ==
    LET n == w % Numbers IN IF Signed /\ n >= Numbers \div 2 THEN n - Numbers ELSE n
ShownIsMeant == \A value \in ipmbShown : \E w \in Words : ~Missing(w) /\ value = Meant(w)

(* When nothing changes any more, a device without power has no value, and *)
(* one that has it got its command.                                        *)
FollowsHost == IF ipmbHost THEN ~toInit ELSE ipmbShown = {}
Follows == <>[]FollowsHost
=============================================================================
