------------------------------ MODULE AudioVolume ------------------------------
(***************************************************************************)
(* ALSAVolumeManager and the mixer calls it makes: the volume the user     *)
(* set, the mute, and what the control of the sound card says.  The two    *)
(* static fields are shared by the sinks of the process, and no lock       *)
(* guards them; the calls are taken one at a time.                         *)
(***************************************************************************)
EXTENDS Integers, Sequences, SequencesExt

CONSTANTS
    Volumes,  \* what callers pass: integers, out of range too
    Least, Greatest,  \* the range of the control
    None

(* The interface takes any int32.                                          *)
ASSUME VolumeAssumption == Volumes \subseteq Int

Channels == 1..2

VARIABLES
    user_volume,  \* [volume, is_mute]
    control,      \* the value of each channel
    missed,       \* a write to the control has failed
    meant,        \* the last volume that was accepted, None if there is none
    answer        \* of getVolume()

volumeVars == <<user_volume, control, missed, meant, answer>>

check_range(val, least, greatest) ==
    IF val < least THEN least ELSE IF val > greatest THEN greatest ELSE val

(* One number of the text; a percentage is rounded up.                     *)
get_integer(text, least, greatest) ==
    LET part == text.value * (greatest - least)
    IN  IF text.value = None THEN least
        ELSE check_range(IF text.percent THEN (part + 99) \div 100 + least ELSE text.value, least, greatest)

(* A control's name is a list of fields; a field that is none of them, or  *)
(* a number that is not positive, refuses the whole.                       *)
Fields == {"numid", "iface", "name", "index", "device", "subdevice"}
Interfaces == {"card", "mixer", "pcm", "rawmidi", "timer", "sequencer"}

parse_control_id(str) ==
    LET good(f) == /\ f.key \in Fields
                   /\ f.key = "numid" => f.value > 0
                   /\ f.key = "iface" => f.value \in Interfaces
        id == [k \in {"iface"} |-> "mixer"]
        put(i, f) == [k \in DOMAIN i \union {f.key} |-> IF k = f.key THEN f.value ELSE i[k]]
    IN  IF str = <<>> \/ \E i \in DOMAIN str : ~good(str[i]) THEN None ELSE FoldLeft(put, id, str)

SOFTVOL_ELEM == <<[key |-> "name", value |-> "Master Playback Volume"]>>

(* Every channel gets the one number of the text; the control is opened    *)
(* and closed each time, and either may fail, or the card has no such      *)
(* control.                                                                *)
alsa_amixer_cset_vol_impl(value, works) ==
    IF works /\ parse_control_id(SOFTVOL_ELEM) # None
    THEN /\ control' = [c \in Channels |-> get_integer([value |-> value, percent |-> FALSE], Least, Greatest)]
         /\ UNCHANGED missed
    ELSE missed' = TRUE /\ UNCHANGED control

(* softVolume(): the answer of a write is not looked at.                   *)
softVolume(value) == \E works \in BOOLEAN : alsa_amixer_cset_vol_impl(value, works)

(* Mutant: unmuting takes the volume that was passed.                      *)
UtilTakesPassed(user_vol) ==
    LET v == check_range(user_vol, 0, 100)
    IN  /\ user_volume' = [volume |-> v, is_mute |-> FALSE]
        /\ softVolume(v)

(* While muted this unmutes and the volume of before comes back.           *)
setVolumeUtil(user_vol) ==
    LET v == check_range(user_vol, 0, 100)
    IN  IF user_volume.is_mute
        THEN /\ user_volume' = [user_volume EXCEPT !.is_mute = FALSE]
             /\ softVolume(user_volume.volume)
        ELSE /\ user_volume' = [user_volume EXCEPT !.volume = v]
             /\ softVolume(v)

VolumeInit ==
    /\ user_volume = [volume |-> 0, is_mute |-> FALSE]
    /\ control \in [Channels -> {Least, Greatest}]
    /\ missed = FALSE /\ meant = None /\ answer = None

setVolume(user_vol) ==
    /\ ~user_volume.is_mute
    /\ setVolumeUtil(user_vol)
    /\ meant' = check_range(user_vol, 0, 100) /\ UNCHANGED answer

setMute(mute) ==
    /\ mute # user_volume.is_mute
    /\ IF mute THEN user_volume' = [user_volume EXCEPT !.is_mute = TRUE] /\ softVolume(0)
       ELSE setVolumeUtil(0)
    /\ UNCHANGED <<meant, answer>>

(* The mean of the two channels; the control's failure is answered as is.  *)
getVolume ==
    /\ \E works \in BOOLEAN : answer' = IF works THEN (control[1] + control[2]) \div 2 ELSE -1
    /\ UNCHANGED <<user_volume, control, missed, meant>>

VolumeNext ==
    \/ \E v \in Volumes : setVolume(v)
    \/ \E m \in BOOLEAN : setMute(m)
    \/ getVolume

VolumeSpec == VolumeInit /\ [][VolumeNext]_volumeVars

-----------------------------------------------------------------------------
(* However often the user mutes and unmutes, the card plays at the volume  *)
(* that was accepted last, and not at all while muted; only a write that   *)
(* failed may leave it elsewhere.                                          *)
MuteRestores ==
    ~missed /\ meant # None =>
        control = [c \in Channels |-> get_integer([value |-> IF user_volume.is_mute THEN 0 ELSE meant,
                                                   percent |-> FALSE], Least, Greatest)]
=============================================================================
