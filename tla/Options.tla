------------------------------ MODULE Options -------------------------------
(***************************************************************************)
(* The Option store of src/unnamed/part_002 and the score's set_option of *)
(* src/unnamed/part_003.                                                   *)
(*                                                                         *)
(* Before the score runs, the .rtcmixrc file is read into the store        *)
(* (Option::readConfigFile) and the host may set options through the C     *)
(* setters (set_bool_option, ...).  Then the score runs: set_option        *)
(* changes options, and rtsetparams sets up audio from the record option. *)
(* An option string is abstracted to what set_option extracts from it:     *)
(* the key, matched without case against param_list, and the text after  *)
(* '=' (None when there is no '=').                                        *)
(***************************************************************************)
EXTENDS Integers, Sequences

CONSTANTS
  Devices,      \* device names and paths an option may be given
  FrameCounts,  \* buffer frame counts
  RcFiles,      \* .rtcmixrc files: [result, conf], conf: key -> [ok, v]
  HostCalls,    \* [fn, name, value] calls of the C setters before the score
  ArgLists      \* set_option argument lists: sequences of [key, val]

None == "none"                  \* no '=' in the option string
BoolKeys == {"audio", "play", "record", "clobber", "print", "reportClipping", "checkPeaks"}
StringKeys == {"device", "inDevice", "outDevice", "dsoPath"}
DEFAULT_BUFFER_FRAMES == 4096

VARIABLES
  opts,           \* the Option object: BoolKeys \cup StringKeys \cup {"bufferFrames"}
  phase,          \* "new", "startup" once the rc file is read, "score"
  rtsetparams_called,
  ret,            \* the return value of the last set_option
  recordAtSetup   \* the record option rtsetparams set audio up with (history)

vars == <<opts, phase, rtsetparams_called, ret, recordAtSetup>>

\* param_list: label -> [type, value].
param_list ==
  [DEVICE |-> [type |-> "DEVICE", value |-> FALSE],
   INDEVICE |-> [type |-> "INDEVICE", value |-> FALSE],
   OUTDEVICE |-> [type |-> "OUTDEVICE", value |-> FALSE],
   AUDIO_ON |-> [type |-> "AUDIO", value |-> TRUE],
   AUDIO_OFF |-> [type |-> "AUDIO", value |-> FALSE],
   RECORD_ON |-> [type |-> "RECORD", value |-> TRUE],
   RECORD_OFF |-> [type |-> "RECORD", value |-> FALSE],
   PLAY_ON |-> [type |-> "AUDIO", value |-> TRUE],
   PLAY_OFF |-> [type |-> "AUDIO", value |-> FALSE],
   CLOBBER_ON |-> [type |-> "CLOBBER", value |-> TRUE],
   CLOBBER_OFF |-> [type |-> "CLOBBER", value |-> FALSE],
   REPORT_CLIPPING_ON |-> [type |-> "REPORT_CLIPPING", value |-> TRUE],
   REPORT_CLIPPING_OFF |-> [type |-> "REPORT_CLIPPING", value |-> FALSE],
   CHECK_PEAKS_ON |-> [type |-> "CHECK_PEAKS", value |-> TRUE],
   CHECK_PEAKS_OFF |-> [type |-> "CHECK_PEAKS", value |-> FALSE],
   FULL_DUPLEX_ON |-> [type |-> "FULL_DUPLEX", value |-> TRUE],
   FULL_DUPLEX_OFF |-> [type |-> "FULL_DUPLEX", value |-> FALSE]]

Labels == DOMAIN param_list

\* Option::Option(): the defaults.
OptionDefaults ==
  [k \in BoolKeys \cup StringKeys \cup {"bufferFrames"} |->
     CASE k = "record" \/ k = "clobber" -> FALSE
       [] k \in BoolKeys -> TRUE
       [] k = "bufferFrames" -> DEFAULT_BUFFER_FRAMES
       [] OTHER -> "NULL"]

Init ==
  /\ opts = OptionDefaults
  /\ phase = "new"
  /\ rtsetparams_called = FALSE
  /\ ret = 0
  /\ recordAtSetup = FALSE

\* result = conf->getValue(key, val); if (result == kConfigNoErr) set(val).
RcValue(rc, k, old) == IF k \in DOMAIN rc.conf /\ rc.conf[k].ok THEN rc.conf[k].v ELSE old

\* Option::readConfigFile(fileName).  A missing or unreadable file changes
\* nothing; otherwise each key with a value of its type (ok) is copied in,
\* and a key whose value has another type only draws a warning.
ReadConfigFile(rc) ==
  /\ phase = "new"
  /\ phase' = "startup"
  /\ opts' = IF rc.result # "ok" THEN opts
             ELSE [k \in DOMAIN opts |-> RcValue(rc, k, opts[k])]
  /\ UNCHANGED <<rtsetparams_called, ret, recordAtSetup>>

\* set_bool_option, set_double_option and set_string_option: the host's
\* setters, taking an option name the store knows.
SetHostOption(c) ==
  /\ phase \in {"new", "startup"}
  /\ opts' = [opts EXCEPT ![c.name] = c.value]
  /\ UNCHANGED <<phase, rtsetparams_called, ret, recordAtSetup>>

\* The score starts; configuration through the host is over.
StartScore ==
  /\ phase \in {"new", "startup"}
  /\ phase' = "score"
  /\ UNCHANGED <<opts, rtsetparams_called, ret, recordAtSetup>>

\* get_bool_option(option_name)
GetBoolOption(o, name) == o[name]

\* The option each flag type of param_list sets (the switch of set_option).
FlagOption == [AUDIO |-> "play", RECORD |-> "record", CLOBBER |-> "clobber",
               REPORT_CLIPPING |-> "reportClipping", CHECK_PEAKS |-> "checkPeaks"]
DeviceOption == [DEVICE |-> "device", INDEVICE |-> "inDevice", OUTDEVICE |-> "outDevice"]

Die(o) == [o |-> o, ret |-> -1]

\* Option::device, inDevice, outDevice and dsoPath: delete the old string
\* and keep a _strdup copy of the new one, so the store's value is its
\* own and does not follow the caller's buffer.
SetStringOption(o, k, v) == [o EXCEPT ![k] = v]

\* The FULL_DUPLEX case: refused when turning on after rtsetparams, then
\* record is set (on) or kept only when play is off (off), and refused if
\* record is then on after rtsetparams.
FullDuplex(o, on) ==
  IF on /\ rtsetparams_called THEN Die(o)
  ELSE LET o1 == [o EXCEPT !.record = IF on THEN TRUE ELSE o.record /\ ~o.play]
       IN IF o1.record /\ rtsetparams_called THEN Die(o1) ELSE [o |-> o1, ret |-> 0]

\* Mutant: an empty value after '=' is not refused.
MissingValueNever(a) == FALSE

\* "key=" with nothing after the '=': die("Missing value for key").
MissingValue(a) == a.val = ""

\* One pass of the loop of set_option over option string a.
SetOptionArg(o, a) ==
  IF MissingValue(a) THEN Die(o)
  ELSE IF a.key \notin Labels THEN Die(o)            \* Unrecognized argument
  ELSE LET t == param_list[a.key].type
           v == param_list[a.key].value
       IN CASE t \in DOMAIN DeviceOption ->
                 IF a.val = None THEN Die(o)          \* No value for "device"
                 ELSE [o |-> SetStringOption(o, DeviceOption[t], a.val), ret |-> 0]
            [] t \in DOMAIN FlagOption -> [o |-> [o EXCEPT ![FlagOption[t]] = v], ret |-> 0]
            [] t = "FULL_DUPLEX" -> FullDuplex(o, v)

\* for (i = 0; i < nargs; i++) ...: the first die returns -1 with what the
\* earlier arguments set still set.
RECURSIVE SetOptionLoop(_, _, _)
SetOptionLoop(args, i, o) ==
  IF i > Len(args) THEN [o |-> o, ret |-> 0]
  ELSE LET r == SetOptionArg(o, args[i])
       IN IF r.ret # 0 THEN r ELSE SetOptionLoop(args, i + 1, r.o)

\* set_option(p, nargs, pp) called from the score.
SetOption(args) ==
  LET r == SetOptionLoop(args, 1, opts)
  IN /\ phase = "score"
     /\ opts' = r.o
     /\ ret' = r.ret
     /\ UNCHANGED <<phase, rtsetparams_called, recordAtSetup>>

\* rtsetparams: audio is set up once, with record as the store has it.
RtSetParams ==
  /\ phase = "score"
  /\ ~rtsetparams_called
  /\ rtsetparams_called' = TRUE
  /\ recordAtSetup' = GetBoolOption(opts, "record")
  /\ UNCHANGED <<opts, phase, ret>>

Next ==
  \/ \E rc \in RcFiles : ReadConfigFile(rc)
  \/ \E c \in HostCalls : SetHostOption(c)
  \/ StartScore
  \/ \E args \in ArgLists : SetOption(args)
  \/ RtSetParams

Spec == Init /\ [][Next]_vars

-----------------------------------------------------------------------------
(***************************************************************************)
(* Properties                                                              *)
(***************************************************************************)
\* Type invariant: every option keeps the type of its setter.
TypeOK ==
  /\ DOMAIN opts = BoolKeys \cup StringKeys \cup {"bufferFrames"}
  /\ \A k \in BoolKeys : opts[k] \in BOOLEAN
  /\ \A k \in StringKeys : opts[k] \in Devices \cup {"NULL"}
  /\ opts.bufferFrames \in FrameCounts \cup {DEFAULT_BUFFER_FRAMES}
  /\ phase \in {"new", "startup", "score"}
  /\ ret \in {0, -1}

\* Spec sections 6 and 7: turning record on after audio setup is fatal,
\* so record is on after rtsetparams only if audio was set up with it.
RecordFixedAtSetup ==
  rtsetparams_called /\ opts.record => recordAtSetup
====
