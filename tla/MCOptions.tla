----------------------------- MODULE MCOptions ------------------------------
(***************************************************************************)
(* Inputs for Options: two device names, one non-default frame count, an  *)
(* rc file that is missing and ones that set record or play, or give a     *)
(* value of the wrong type; host calls of each setter; and set_option      *)
(* lists of one or two option strings over the flag labels, FULL_DUPLEX,   *)
(* a device with and without a value, an empty value and a bad key.       *)
(***************************************************************************)
EXTENDS Options

MCDevices == {"dev1", "dev2"}
MCFrameCounts == {256}

Ok(v) == [ok |-> TRUE, v |-> v]
Bad == [ok |-> FALSE, v |-> 0]
MCRcFiles ==
  {[result |-> "missing", conf |-> <<>>],
   [result |-> "ok", conf |-> [record |-> Ok(TRUE), play |-> Ok(FALSE)]],
   [result |-> "ok", conf |-> [record |-> Bad, bufferFrames |-> Ok(256), device |-> Ok("dev1")]]}

MCHostCalls ==
  {[name |-> "record", value |-> TRUE], [name |-> "play", value |-> FALSE],
   [name |-> "bufferFrames", value |-> 256], [name |-> "dsoPath", value |-> "dev2"]}

Arg(k, v) == [key |-> k, val |-> v]
MCOneArgs ==
  {Arg(k, None) : k \in {"RECORD_ON", "RECORD_OFF", "PLAY_ON", "PLAY_OFF",
                          "FULL_DUPLEX_ON", "FULL_DUPLEX_OFF", "CLOBBER_ON",
                          "CHECK_PEAKS_OFF", "REPORT_CLIPPING_OFF", "AUDIO_ON",
                          "DEVICE", "BOGUS"}}
  \cup {Arg("OUTDEVICE", "dev1"), Arg("INDEVICE", "dev2"), Arg("DEVICE", ""),
        Arg("DEVICE", "dev2"), Arg("RECORD_ON", "dev1")}
MCArgLists == {<<a>> : a \in MCOneArgs} \cup
  {<<a, b>> : a \in {Arg("PLAY_OFF", None), Arg("RECORD_ON", None), Arg("BOGUS", None)},
              b \in {Arg("FULL_DUPLEX_ON", None), Arg("FULL_DUPLEX_OFF", None), Arg("CLOBBER_ON", None)}}
====
