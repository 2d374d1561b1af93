------------------------------ MODULE MCAdapters ----------------------------
(***************************************************************************)
(* The adapters between the core and its platforms, each a small instance  *)
(* of its own; a behaviour follows one of them from its first state on:    *)
(*   "apple"    the application observers of crates/essenty-apple,         *)
(*   "web"      the page observers of crates/essenty-web,                  *)
(*   "android"  the two lifecycle adapters of crates/essenty-android,      *)
(*   "runtime"  the Runtime of crates/essenty, whose components move the   *)
(*              lifecycle inside notifications,                            *)
(*   "storage"  saved state on its way through the web's storage,          *)
(*   "codec"    saved state on its way through the two codecs.             *)
(* The constants of the configuration bound the platforms; their           *)
(* components do not ask for transitions, and an Activity, whose ways are  *)
(* the most, has one component only.                                       *)
(*                                                                         *)
(* The page's namespace is "a".  Next to it a component keeps its state    *)
(* under "k" in the namespace "ab", of which "a" is a prefix, or, in the   *)
(* configuration with the Nested names, in "a:b".                          *)
(***************************************************************************)
EXTENDS AppleHost, WebHost, AndroidHost, RuntimeHost,
        BrowserStorage, StateCodecs

CONSTANT Scenarios  \* the adapters a configuration looks at

VARIABLE scenario

hostVars == <<vars, appleVars, webVars, androidVars, runtimeVars>>
savedVars == <<browserVars, codecVars>>
adapterVars == <<hostVars, savedVars, scenario>>

MCNamespace == <<"a">>
MCOther     == <<"a", "b">>
MCOtherKey  == <<"k">>
MCKeys      == {<<"k">>, <<"b", "k">>}

MCNestedOther == <<"a", ":", "b">>
MCNestedKeys  == {<<"k">>, <<"b", ":", "k">>}
MCNestedOwn   == {<<"k">>}

(* Snapshots of up to two of three keys, which are in the order of their   *)
(* bytes, with an empty key and an empty value among them.                 *)
MCKey(i)  == << <<>>, <<107>>, <<107, 98>> >>[i]
MCValues  == {<<>>, <<0>>, <<1, 255>>}
MCSnapshots ==
  {<<>>}
    \cup {<< <<MCKey(i), v>> >> : i \in 1 .. 3, v \in MCValues}
    \cup {<< <<MCKey(p[1]), v>>, <<MCKey(p[2]), w>> >> :
            p \in {<<1, 2>>, <<1, 3>>, <<2, 3>>}, v \in MCValues, w \in MCValues}

(* The check value of the CRC-32 of IEEE 802.3: that of "123456789" is     *)
(* cbf43926, here with its lowest byte first.                              *)
ASSUME CrcCheckValue ==
  WordBytes(Crc32(<<49, 50, 51, 52, 53, 54, 55, 56, 57>>)) = <<38, 57, 244, 203>>

Single == INSTANCE AndroidHost WITH MaxObservers <- 1

Busy == INSTANCE RuntimeHost WITH
  Reentrant <- TRUE, MaxTransitions <- 4, MaxObservers <- 1

NoApple == /\ os = "none" /\ launched = FALSE /\ front = "away"
           /\ attached = "no" /\ lastNotice = "none"
NoWeb == /\ visibility = "none" /\ page = "gone" /\ queue = <<>>
         /\ listening = {} /\ bound = "no"
NoAndroid == /\ adapter = "native" /\ activity = "Initialized"
             /\ lastCallback = "none" /\ modern = TRUE /\ canHandle = FALSE
             /\ key = "up" /\ steady = TRUE /\ acts = 1 /\ presses = 0
NoRuntime == /\ instances = Empty /\ ended = FALSE
             /\ pending = "none" /\ aside = TRUE

NoCodec ==
  /\ saved = <<>> /\ form = "envelope"
  /\ kept = Err /\ damage = "none" /\ read = <<>>

NoHost == Init /\ NoApple /\ NoWeb /\ NoAndroid /\ NoRuntime
NoSaved == StorageInit /\ NoCodec

HostsInit ==
  \/ scenario = "apple" /\ AppleInit /\ NoWeb /\ NoAndroid /\ NoRuntime
  \/ scenario = "web" /\ NoApple /\ WebInit /\ NoAndroid /\ NoRuntime
  \/ scenario = "android" /\ NoApple /\ NoWeb /\ AndroidInit /\ NoRuntime
  \/ scenario = "runtime" /\ NoApple /\ NoWeb /\ NoAndroid /\ RuntimeInit

AdaptersInit ==
  /\ scenario \in Scenarios
  /\ \/ HostsInit /\ NoSaved
     \/ scenario = "storage" /\ NoHost /\ NoSaved
     \/ scenario = "codec" /\ NoHost /\ StorageInit /\ CodecInit

HostsNext ==
  \/ /\ scenario = "apple" /\ AppleNext
     /\ UNCHANGED <<webVars, androidVars, runtimeVars>>
  \/ /\ scenario = "web" /\ WebNext
     /\ UNCHANGED <<appleVars, androidVars, runtimeVars>>
  \/ /\ scenario = "android" /\ Single!AndroidNext
     /\ UNCHANGED <<appleVars, webVars, runtimeVars>>
  \/ /\ scenario = "runtime" /\ Busy!RuntimeNext
     /\ UNCHANGED <<appleVars, webVars, androidVars>>

SavedNext ==
  \/ scenario = "storage" /\ StorageNext /\ UNCHANGED codecVars
  \/ scenario = "codec" /\ CodecNext /\ UNCHANGED browserVars

AdaptersNext ==
  /\ \/ HostsNext /\ UNCHANGED savedVars
     \/ SavedNext /\ UNCHANGED hostVars
  /\ UNCHANGED scenario

AdaptersSpec == AdaptersInit /\ [][AdaptersNext]_adapterVars

=============================================================================
