------------------------------ MODULE NsmCodec ------------------------------
(***************************************************************************)
(* The messages of the GPU sensor daemon (src/src/nvidia-gpu/              *)
(* OcpMctpVdm.cpp, NvidiaGpuMctpVdm.cpp, MessagePackUnpackUtils.hpp): a    *)
(* request is packed, a device answers, the answer may be cut short or be  *)
(* that to an earlier request, and it is unpacked as the answer to the     *)
(* command last asked.                                                     *)
(*                                                                         *)
(* A message is a sequence of bytes and an integer of width w the w bytes  *)
(* of it, least significant first.                                         *)
(***************************************************************************)
EXTENDS Naturals, Sequences, SequencesExt

CONSTANTS MaxInventoryDataSize,     \* longest inventory property
          Instances                 \* instance identifiers tried

CodecAssumption ==
    /\ MaxInventoryDataSize \in Nat \ {0}
    /\ Instances \subseteq Nat

VARIABLES
    asked,      \* the command last asked
    answered,   \* the command the bytes on the wire answer
    sent,       \* the values the device put in them
    wire,       \* the bytes
    got,        \* what was decoded
    step        \* "ask", "answer", "receive" or "done"

codecVars == <<asked, answered, sent, wire, got, step>>

-----------------------------------------------------------------------------
(* Unpacking.  After a failure nothing more is taken.                      *)
Unpacker(bytes) == [rest |-> bytes, err |-> FALSE, got |-> <<>>]

Skip(u, w) ==
    CASE u.err -> u
      [] Len(u.rest) < w -> [u EXCEPT !.err = TRUE]
      [] OTHER -> [u EXCEPT !.rest = SubSeq(@, w + 1, Len(@))]

Unpack(u, w) ==
    LET v == Skip(u, w)
    IN  IF v.err THEN v ELSE [v EXCEPT !.got = Append(@, SubSeq(u.rest, 1, w))]

UnpackAll(u, widths) == FoldLeft(Unpack, u, widths)

Number(bytes) == IF Len(bytes) = 1 THEN bytes[1] ELSE bytes[1] + 256 * bytes[2]
Bytes(n) == <<n % 256, n \div 256>>
Total(widths) == FoldLeft(+, 0, widths)
Flat(values) == FoldLeft(\o, <<>>, values)

Bad == [ok |-> FALSE, cc |-> 0, values |-> <<>>]
Refused(cc) == [ok |-> TRUE, cc |-> cc, values |-> <<>>]
Values(u) == IF u.err THEN Bad ELSE [ok |-> TRUE, cc |-> 0, values |-> u.got]

-----------------------------------------------------------------------------
(* Headers: the vendor, big endian, the instance with the request bit, the *)
(* version and type of the protocol, and the type of the message.          *)
PackHeader(request, instance, type) ==
    IF instance > 31 THEN <<>>
    ELSE <<16, 222, instance + (IF request THEN 128 ELSE 0), 137, type>>

HeaderIsGood(bytes) ==
    /\ Len(bytes) >= 5
    /\ SubSeq(bytes, 1, 2) = <<16, 222>>
    /\ (bytes[3] \div 32) % 2 = 0
    /\ bytes[4] = 137

IsRequest(bytes) == bytes[3] >= 128

-----------------------------------------------------------------------------
(* The commands: their type and code, the widths of what the request       *)
(* carries, and what the answer carries - "none", "fields", or a form of   *)
(* its own.                                                                *)
Discovery == 0
NetworkPort == 1
PcieLink == 2
Platform == 3

Command(type, code, request, response) ==
    [type |-> type, code |-> code, request |-> request, response |-> response,
     anyCode |-> FALSE]

None == [form |-> "none", widths |-> <<>>]
Fields(widths) == [form |-> "fields", widths |-> widths]
Form(name) == [form |-> name, widths |-> <<>>]

SetEventSubscription == Command(Discovery, 6, <<1, 1>>, None)
SetEventSources == Command(Discovery, 5, <<1, 8>>, None)
QueryDeviceIdentification == Command(Discovery, 9, <<>>, Fields(<<1, 1>>))
GetSupportedMessageTypes == Command(Discovery, 1, <<>>, Fields(<<32>>))
GetSupportedCommandCodes == Command(Discovery, 2, <<1>>, Fields(<<32>>))
GetTemperatureReading == Command(Platform, 0, <<1>>, Fields(<<4>>))
ReadThermalParameters == Command(Platform, 2, <<1>>, Fields(<<4>>))
\* Decodes the peak power too, so the code of the answer is not looked at.
GetPowerDraw == [Command(Platform, 3, <<1, 1>>, Fields(<<4>>)) EXCEPT !.anyCode = TRUE]
GetMaxObservedPower == [GetPowerDraw EXCEPT !.code = 4]
GetCurrentEnergyCounter == Command(Platform, 6, <<1>>, Fields(<<8>>))
GetVoltage == Command(Platform, 15, <<1>>, Fields(<<4>>))
GetPowerLimits == Command(Platform, 7, <<4>>, Fields(<<4, 4, 4>>))
SetPowerLimits == Command(Platform, 8, <<4, 1, 1, 4>>, None)
GetDriverInformation == Command(Platform, 14, <<>>, Form("driver"))
GetInventoryText == Command(Platform, 12, <<1>>, Form("text"))
GetInventoryNumber == Command(Platform, 12, <<1>>, Form("number"))
GetCurrentUtilization == Command(Platform, 71, <<>>, Fields(<<4, 4>>))
GetClockLimit == Command(Platform, 17, <<1>>, Fields(<<4, 4, 4, 4>>))
GetViolationDuration == Command(Platform, 69, <<>>, Fields(<<8, 8, 8, 8>>))
GetMemoryCapacityUtilization == Command(Platform, 173, <<>>, Fields(<<4, 4>>))
SetClockLimit == Command(Platform, 16, <<1, 1, 4, 4>>, None)
QueryScalarGroupTelemetryV1 == Command(PcieLink, 4, <<1, 1>>, Form("words"))
QueryScalarGroupTelemetryV2 == Command(PcieLink, 36, <<1, 1, 1>>, Form("words"))
ListPciePorts == Command(PcieLink, 7, <<>>, Form("ports"))
GetPortNetworkAddresses == Command(NetworkPort, 17, <<2>>, Form("addresses"))
GetEthernetPortTelemetryCounters == Command(NetworkPort, 15, <<2>>, Form("counters"))
GetCurrentClockFrequency == Command(Platform, 11, <<1>>, Fields(<<4>>))
GetEccErrorCounts == Command(Platform, 125, <<>>, Fields(<<2, 4, 4, 4, 4, 4>>))
GetEccMode == Command(Platform, 79, <<>>, Fields(<<1>>))
GetLeakDetectionInfo == Command(Platform, 23, <<>>, Form("leaks"))

Commands ==
    {SetEventSubscription, SetEventSources, QueryDeviceIdentification,
     GetSupportedMessageTypes, GetSupportedCommandCodes, GetTemperatureReading,
     ReadThermalParameters, GetPowerDraw, GetMaxObservedPower,
     GetCurrentEnergyCounter, GetVoltage,
     GetPowerLimits, SetPowerLimits, GetDriverInformation, GetInventoryText,
     GetInventoryNumber, GetCurrentUtilization, GetClockLimit, GetViolationDuration,
     GetMemoryCapacityUtilization, SetClockLimit, QueryScalarGroupTelemetryV1,
     QueryScalarGroupTelemetryV2, ListPciePorts, GetPortNetworkAddresses,
     GetEthernetPortTelemetryCounters, GetCurrentClockFrequency, GetEccErrorCounts,
     GetEccMode, GetLeakDetectionInfo}

Aggregate == {"addresses", "counters"}

EncodeRequest(c, instance, args) ==
    LET header == PackHeader(TRUE, instance, c.type)
    IN  IF header = <<>> THEN <<>>
        ELSE header \o <<c.code, Total(c.request)>> \o Flat(args)

-----------------------------------------------------------------------------
(* The data of an answer, from its size on.                                *)
FieldsOf(widths, size, u) == IF size # Total(widths) THEN Bad ELSE Values(UnpackAll(u, widths))

\* The version is what is left of the message, without its last byte.
DriverOf(size, u) ==
    LET v == Unpack(u, 1)
    IN  IF size < 2 \/ v.err \/ v.rest = <<>> THEN Bad
        ELSE [ok |-> TRUE, cc |-> 0, values |-> Append(v.got, Front(v.rest))]

\* A text or identifier has the size announced, a number four bytes.
PropertyOf(form, size, u) ==
    IF size \notin 1..MaxInventoryDataSize THEN Bad
    ELSE Values(Unpack(u, IF form = "text" THEN size ELSE 4))

WordsOf(size, u) == Values(UnpackAll(u, [i \in 1..(size \div 4) |-> 4]))

\* Only the ports that are not internal are counted.
PortsOf(size, u) ==
    LET v == Unpack(u, 2)
        pairs == UnpackAll([v EXCEPT !.got = <<>>], [i \in 1..Number(v.got[1]) |-> 2])
    IN  IF size < 2 \/ v.err \/ pairs.err THEN Bad
        ELSE [ok |-> TRUE, cc |-> 0, values |-> SelectSeq(pairs.got, LAMBDA p : p[1] = 0)]

\* Sensors, each with the same number of thresholds; the size is not looked at.
LeaksOf(u) ==
    LET v == UnpackAll(u, <<1, 1>>)
        levels == [i \in 1..Number(v.got[2]) |-> 2]
        sensor == <<1, 1>> \o levels \o <<2>>
    IN  IF v.err THEN Bad
        ELSE Values(UnpackAll([v EXCEPT !.got = <<>>],
                              FoldLeft(LAMBDA ws, i : ws \o sensor, <<>>,
                                       [i \in 1..Number(v.got[1]) |-> i])))

DataOf(response, u) ==
    LET v == Unpack(u, 2)
        size == Number(v.got[1])
        after == [v EXCEPT !.got = <<>>]
    IN  IF v.err THEN Bad
        ELSE CASE response.form = "fields" -> FieldsOf(response.widths, size, after)
               [] response.form = "driver" -> DriverOf(size, after)
               [] response.form \in {"text", "number"} -> PropertyOf(response.form, size, after)
               [] response.form = "words" -> WordsOf(size, after)
               [] response.form = "ports" -> PortsOf(size, after)
               [] response.form = "leaks" -> LeaksOf(after)

-----------------------------------------------------------------------------
(* Samples of an aggregate: a tag, then a byte with the valid bit, three   *)
(* bits of length and whether they count bytes or are an exponent.         *)
SampleLength(info) ==
    LET n == (info \div 2) % 8 IN IF info >= 128 THEN n ELSE 2 ^ n

\* What a handler takes from a valid sample; the rest it passes over.
Taken(form, tag, length) ==
    IF form = "counters" THEN length \in {4, 8}
    ELSE length = 8 \/ (tag = 0 /\ length = 1)

Sample(form, u) ==
    LET head == UnpackAll([u EXCEPT !.got = <<>>], <<1, 1>>)
        tag == Number(head.got[1])
        info == Number(head.got[2])
        length == SampleLength(info)
        after == [head EXCEPT !.got = u.got]
        value == Unpack([after EXCEPT !.got = <<>>], length)
    IN  CASE u.err -> u
          [] head.err -> [u EXCEPT !.err = TRUE]
          [] info % 2 = 1 /\ Taken(form, tag, length) ->
                IF value.err THEN [u EXCEPT !.err = TRUE]
                ELSE [value EXCEPT !.got = Append(u.got, <<tag, value.got[1]>>)]
          [] OTHER -> Skip(after, length)

\* A sample passed over at the end may be cut: the failure is not asked for.
AggregateOf(form, u) ==
    LET v == Unpack(u, 2)
        n == Number(v.got[1])
        seen == FoldLeft(LAMBDA w, i : Sample(form, w), [v EXCEPT !.got = <<>>],
                         [i \in 1..(n - 1) |-> i])
        last == Sample(form, seen)
        skipped ==
            /\ Len(seen.rest) >= 2
            /\ ~(seen.rest[2] % 2 = 1
                   /\ Taken(form, seen.rest[1], SampleLength(seen.rest[2])))
    IN  CASE v.err -> Bad
          [] n = 0 -> Values([v EXCEPT !.got = <<>>])
          [] ~seen.err /\ last.err /\ skipped -> Values(seen)
          [] OTHER -> Values(last)

-----------------------------------------------------------------------------
\* The header of an answer: it answers the command.
Answers(c, bytes) ==
    /\ HeaderIsGood(bytes) /\ ~IsRequest(bytes)
    /\ bytes[5] = c.type
    /\ Len(bytes) >= 6
    /\ c.anyCode \/ bytes[6] = c.code

\* Completion and reason; an aggregate has a reason only when it is refused.
DecodeResponse(c, bytes) ==
    LET aggregate == c.response.form \in Aggregate
        plain == Unpacker(SubSeq(bytes, 10, Len(bytes)))
    IN  CASE ~Answers(c, bytes) \/ Len(bytes) < 7 -> Bad
          [] Len(bytes) < 9 /\ (~aggregate \/ bytes[7] # 0) -> Bad
          [] bytes[7] # 0 -> Refused(bytes[7])
          [] aggregate -> AggregateOf(c.response.form, Unpacker(SubSeq(bytes, 8, Len(bytes))))
          [] c.response.form = "none" -> Values(plain)
          [] OTHER -> DataOf(c.response, plain)

-----------------------------------------------------------------------------
(* A device answers as the protocol says.                                  *)
Filled(widths) == [k \in DOMAIN widths |-> [i \in 1..widths[k] |-> (7 * k + i) % 256]]

Sized(values, data) == [values |-> values, data |-> Bytes(Len(data)) \o data]

DeviceData(response) ==
    CASE response.form = "none" -> {[values |-> <<>>, data |-> <<>>]}
      [] response.form = "fields" ->
            {Sized(Filled(response.widths), Flat(Filled(response.widths)))}
      [] response.form = "driver" -> {Sized(<<<<2>>, <<53, 54>>>>, <<2, 53, 54, 0>>)}
      [] response.form = "text" -> {Sized(<<<<65, 66, 67>>>>, <<65, 66, 67>>)}
      [] response.form = "number" -> {Sized(Filled(<<4>>), Flat(Filled(<<4>>)))}
      [] response.form = "words" ->
            {Sized(Filled(ws), Flat(Filled(ws))) : ws \in {<<>>, <<4>>, <<4, 4>>}}
      [] response.form = "ports" ->
            {Sized(<<<<0, 4>>, <<0, 2>>>>, <<3, 0, 0, 4, 1, 9, 0, 2>>)}
      [] response.form = "leaks" ->
            {Sized(Filled(<<1, 1, 2, 2, 1, 1, 2, 2>>),
                   <<2, 1>> \o Flat(Filled(<<1, 1, 2, 2, 1, 1, 2, 2>>)))}
      [] response.form = "addresses" ->
            {[values |-> <<<<0, <<3>>>>, <<1, Filled(<<8>>)[1]>>>>,
              data |-> <<3, 0, 0, 1, 3, 1, 7>> \o Filled(<<8>>)[1] \o <<2, 6>> \o Filled(<<8>>)[1]]}
      [] response.form = "counters" ->
            {[values |-> <<<<1, <<5, 6, 7, 8>>>>>>,
              data |-> <<2, 0, 1, 5, 5, 6, 7, 8, 9, 131, 1>>]}

DeviceAnswer(c, d) == PackHeader(FALSE, 0, c.type) \o <<c.code, 0>>
    \o (IF c.response.form \in Aggregate THEN d.data ELSE <<0, 0>> \o d.data)

DeviceRefusal(c) == PackHeader(FALSE, 0, c.type) \o <<c.code, 2, 7, 0>>

-----------------------------------------------------------------------------
Start(c) ==
    /\ asked = c /\ answered = c
    /\ sent = <<>> /\ wire = <<>> /\ got = Bad /\ step = "ask"

Init == \E c \in Commands : Start(c)

\* A request that cannot be packed is not sent.
Ask ==
    /\ step = "ask"
    /\ \E i \in Instances :
          /\ wire' = EncodeRequest(asked, i, Filled(asked.request))
          /\ step' = IF wire' = <<>> THEN "done" ELSE "answer"
    /\ UNCHANGED <<asked, answered, sent, got>>

\* The device answers what it was asked, or refuses.
DeviceSide ==
    /\ step = "answer"
    /\ \/ \E d \in DeviceData(asked.response) :
             sent' = d.values /\ wire' = DeviceAnswer(asked, d)
       \/ sent' = <<>> /\ wire' = DeviceRefusal(asked)
    /\ answered' = asked /\ step' = "receive"
    /\ UNCHANGED <<asked, got>>

\* The answer comes to a later request, or is cut short.
Late ==
    /\ step = "receive" /\ asked = answered
    /\ \E c \in Commands \ {answered} : asked' = c
    /\ UNCHANGED <<answered, sent, wire, got, step>>

Cut ==
    /\ step = "receive"
    /\ \E n \in 0..(Len(wire) - 1) : wire' = SubSeq(wire, 1, n)
    /\ asked = answered
    /\ UNCHANGED <<asked, answered, sent, got, step>>

Receive ==
    /\ step = "receive"
    /\ got' = DecodeResponse(asked, wire) /\ step' = "done"
    /\ UNCHANGED <<asked, answered, sent, wire>>

Next == Ask \/ DeviceSide \/ Late \/ Cut \/ Receive

Spec == Init /\ [][Next]_codecVars

-----------------------------------------------------------------------------
TypeOK ==
    /\ {asked, answered} \subseteq Commands
    /\ wire \in Seq(0..255)
    /\ got.ok \in BOOLEAN /\ got.cc \in 0..255
    /\ step \in {"ask", "answer", "receive", "done"}

\* The driver's version ends where the message does.
Shortened(values) ==
    /\ asked.response.form = "driver" /\ Len(values) = 2
    /\ values[1] = sent[1] /\ IsPrefix(values[2], sent[2])

(* What is decoded from an answer that was cut is an error or all the      *)
(* device sent, and an answer to another command is no answer.  The        *)
(* exceptions are the driver's version, which may be shortened, and the    *)
(* power, taken from the answer to any platform command with four bytes.   *)
DecodedIsSent ==
    step = "done" /\ got.ok /\ wire # <<>> =>
        /\ asked.type = answered.type
        /\ asked.anyCode \/ asked.code = answered.code
        /\ asked = answered /\ got.cc = 0 => got.values = sent \/ Shortened(got.values)
=============================================================================
