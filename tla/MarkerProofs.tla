---------------------------- MODULE MarkerProofs ----------------------------
(***************************************************************************)
(* Whatever is killed, reconfigured or lost with the power: a marker that  *)
(* is accepted and matches is evidence for an object at the place it is    *)
(* accepted for, and only a loss of power makes a process refuse a marker  *)
(* of its own store.  And what configures these processes: the parsers     *)
(* accept nothing that Config refuses, so that only numbers too large to   *)
(* work with end a program with a traceback.                               *)
(***************************************************************************)
EXTENDS MarkerFile, CommandLine, TLAPS

\* The markers on disk and behind it.
Kept == {marker, flushed} \intersect Whole

TypeInv ==
    /\ pc \in {"idle", "upload", "open", "write", "replace"}
    /\ config \in Configs /\ signed \in Nat
    /\ marker \in Whole \union {NoFile, Torn}
    /\ flushed \in Whole \union {NoFile, Torn}
    /\ version \in Nat /\ present \in BOOLEAN
    /\ store \in [Names \X Names -> Nat]

\* A marker of the newest version, and any marker of a file that is gone, has its
\* object at the place it names.
Backed ==
    \A t \in Kept :
        /\ t.version <= version
        /\ t.version = version \/ ~present => store[Place(t.target)] = version

\* A loss of power brings back no marker of another place.
OnePlace ==
    flushed \in Whole => marker \in Whole /\ marker.target = flushed.target

\* While a process archives the file, it is there and no matching marker of it is.
Writing ==
    pc # "idle" =>
        /\ present /\ signed <= version
        /\ \/ marker = NoFile
           \/ /\ marker \in Whole /\ marker.target = Target(config)
              /\ marker.version < version

Uploaded ==
    pc \in {"open", "write", "replace"} /\ signed = version =>
        store[Place(config)] = version

Prepared ==
    pc = "replace" =>
        temporary = [version |-> signed, target |-> MarkerTarget(config)]

EvidenceInv ==
    /\ TypeInv /\ Backed /\ OnePlace /\ Writing /\ Uploaded /\ Prepared

-----------------------------------------------------------------------------
(* Destinations.                                                           *)

\* The text of a marker stands for the place of the configuration it is
\* written with.
LEMMA TargetPlace ==
    ASSUME NEW c \in Configs
    PROVE  /\ Target(c) \in Configs
           /\ Place(Target(c)) = Place(c)
           /\ Place(c) \in Names \X Names
  BY DEF Target, Strip, Place, Configs, Spellings

\* Two configurations of one place are written alike.
LEMMA PlaceTarget ==
    ASSUME NEW c \in Configs, NEW d \in Configs, Place(c) = Place(d)
    PROVE  Target(c) = Target(d)
<1>1. /\ c.endpoint \in Spellings /\ c.destination \in Spellings
      /\ d.endpoint \in Spellings /\ d.destination \in Spellings
  BY DEF Configs
<1>2. c.endpoint.name = d.endpoint.name /\ c.destination.name = d.destination.name
  BY DEF Place
<1>3. ASSUME NEW s \in Spellings, NEW t \in Spellings, s.name = t.name
      PROVE  Strip(s) = Strip(t)
  BY <1>3 DEF Strip, Spellings
<1>4. Strip(c.endpoint) = Strip(d.endpoint) /\ Strip(c.destination) = Strip(d.destination)
  BY <1>1, <1>2, <1>3
<1> QED
  BY <1>4 DEF Target

-----------------------------------------------------------------------------
(* The invariant.                                                          *)

LEMMA EvidenceInit == MarkerInit => EvidenceInv
  BY MarkerFileAssumption DEF MarkerInit, EvidenceInv, TypeInv, Backed, Kept,
     OnePlace, Writing, Uploaded, Prepared

\* What neither changes the file, the markers nor the writer.
LEMMA QuietStep ==
    ASSUME EvidenceInv, UNCHANGED <<writer, flushed, file>>
    PROVE  EvidenceInv'
  BY DEF EvidenceInv, TypeInv, Backed, Kept, OnePlace, Writing, Uploaded, Prepared,
     Place, Target, Strip, MarkerTarget, writer, file

LEMMA WriteStep == EvidenceInv /\ Write => EvidenceInv'
<1> SUFFICES ASSUME EvidenceInv, Write PROVE EvidenceInv'
  OBVIOUS
<1>0. UNCHANGED <<flushed, version, present, config>>
  BY DEF Write, file, Begin, Upload, SourceChanged, OpenTemporary, WriteTemporary,
     Replace, WriterGoes
<1>c. /\ Target(config) \in Configs /\ Place(Target(config)) = Place(config)
      /\ Place(config) \in Names \X Names /\ MarkerTarget(config) = Target(config)
  BY TargetPlace DEF EvidenceInv, TypeInv, MarkerTarget
<1>1. CASE Begin
  <2>1. /\ present /\ pc' = "upload" /\ signed' = version
        /\ UNCHANGED <<temporary, marker, store>>
    BY <1>1 DEF Begin, WriterGoes
  <2>2. \/ marker = NoFile
        \/ /\ marker \in Whole /\ marker.target = Target(config)
           /\ marker.version < version
    <3>1. CASE marker = NoFile
      BY <3>1
    <3>2. CASE Accepted(config)
      <4>1. marker \in Whole /\ marker.target = Target(config)
        BY <3>2 DEF Accepted, EvidenceInv, TypeInv
      <4>2. marker.version # version
        BY <1>1, <3>2, <2>1 DEF Begin, AlreadyArchived, SameSignature
      <4>3. marker.version \in Nat /\ marker.version <= version
        BY <4>1 DEF EvidenceInv, Backed, Kept, Whole
      <4> QED
        BY <4>1, <4>2, <4>3 DEF EvidenceInv, TypeInv
    <3> QED
      BY <1>1, <3>1, <3>2 DEF Begin
  <2> QED
    BY <1>0, <2>1, <2>2 DEF EvidenceInv, TypeInv, Backed, Kept, OnePlace, Writing,
       Uploaded, Prepared
<1>2. CASE Upload
  <2>1. /\ version = signed /\ pc = "upload" /\ pc' = "open"
        /\ store' = [store EXCEPT ![Place(config)] = version]
        /\ UNCHANGED <<signed, temporary, marker>>
    BY <1>2 DEF Upload, WriterGoes
  <2>2. store' \in [Names \X Names -> Nat]
    BY <2>1, <1>c DEF EvidenceInv, TypeInv
  <2>3. \A p \in Names \X Names : store[p] = version => store'[p] = version
    BY <2>1 DEF EvidenceInv, TypeInv
  <2>4. store'[Place(config)] = version
    BY <2>1, <1>c DEF EvidenceInv, TypeInv
  <2>5. \A t \in Kept : Place(t.target) \in Names \X Names
    BY TargetPlace DEF Kept, Whole
  <2>6. Backed'
    BY <1>0, <2>1, <2>3, <2>5 DEF EvidenceInv, Backed, Kept, Place
  <2> QED
    BY <1>0, <2>1, <2>2, <2>4, <2>6 DEF EvidenceInv, TypeInv, OnePlace, Writing,
       Uploaded, Prepared, Place, Target, Strip
<1>3. CASE SourceChanged
  BY <1>0, <1>3 DEF SourceChanged, WriterGoes, EvidenceInv, TypeInv, Backed, Kept,
     OnePlace, Writing, Uploaded, Prepared, Place
<1>4. CASE OpenTemporary
  BY <1>0, <1>4 DEF OpenTemporary, WriterGoes, EvidenceInv, TypeInv, Backed, Kept,
     OnePlace, Writing, Uploaded, Prepared, Place, Target, Strip
<1>5. CASE WriteTemporary
  BY <1>0, <1>5 DEF WriteTemporary, WriterGoes, EvidenceInv, TypeInv, Backed, Kept,
     OnePlace, Writing, Uploaded, Prepared, Place, Target, Strip, MarkerTarget
<1>6. CASE Replace
  <2>1. /\ pc = "replace" /\ pc' = "idle" /\ marker' = temporary
        /\ UNCHANGED <<signed, store>>
    BY <1>6 DEF Replace, WriterGoes
  <2>2. marker' = [version |-> signed, target |-> Target(config)]
    BY <2>1, <1>c DEF EvidenceInv, Prepared
  <2>3. /\ marker' \in Whole /\ marker'.version = signed
        /\ marker'.target = Target(config)
    BY <2>2, <1>c DEF Whole, EvidenceInv, TypeInv
  <2>4. present /\ signed <= version
    BY <2>1 DEF EvidenceInv, Writing
  <2>5. Backed'
    <3>1. SUFFICES ASSUME NEW t \in Kept'
                   PROVE  /\ t.version <= version
                          /\ t.version = version => store[Place(t.target)] = version
      BY <1>0, <2>1, <2>4 DEF Backed, Place
    <3>2. CASE t = marker'
      BY <3>2, <2>1, <2>3, <2>4, <1>c DEF EvidenceInv, Uploaded
    <3>3. CASE t = flushed /\ flushed \in Whole
      BY <3>3 DEF EvidenceInv, Backed, Kept
    <3> QED
      BY <3>1, <3>2, <3>3, <1>0 DEF Kept
  <2>6. OnePlace'
    <3>1. ASSUME flushed \in Whole PROVE flushed.target = Target(config)
      BY <3>1, <2>1, MarkerFileAssumption DEF EvidenceInv, OnePlace, Writing
    <3> QED
      BY <3>1, <1>0, <2>3 DEF OnePlace
  <2> QED
    BY <1>0, <2>1, <2>3, <2>5, <2>6 DEF EvidenceInv, TypeInv, Writing, Uploaded, Prepared
<1> QED
  BY <1>1, <1>2, <1>3, <1>4, <1>5, <1>6 DEF Write

LEMMA OutsideStep ==
    EvidenceInv /\ (Modify \/ Delete \/ Kill \/ Reconfigure \/ Flush \/ LosePower)
        => EvidenceInv'
<1> SUFFICES ASSUME EvidenceInv,
                    Modify \/ Delete \/ Kill \/ Reconfigure \/ Flush \/ LosePower
             PROVE  EvidenceInv'
  OBVIOUS
<1>t. \A t \in Kept : t.version \in Nat /\ Place(t.target) \in Names \X Names
  BY TargetPlace DEF Kept, Whole
<1>1. CASE Modify
  <2>1. /\ present /\ version' = version + 1
        /\ UNCHANGED <<pc, config, signed, temporary, marker, flushed, present, store>>
    BY <1>1 DEF Modify, writer
  <2>2. Backed'
    <3>1. Kept' = Kept
      BY <2>1 DEF Kept
    <3>2. \A t \in Kept : t.version \in Nat /\ t.version <= version
      BY <1>t DEF EvidenceInv, Backed
    <3>3. version \in Nat /\ version' = version + 1 /\ present'
      BY <2>1 DEF EvidenceInv, TypeInv
    <3>4. \A t \in Kept : t.version <= version' /\ t.version # version'
      BY <3>2, <3>3
    <3> QED
      BY <3>1, <3>3, <3>4 DEF Backed
  <2>3. Writing'
    <3>1. CASE marker = NoFile
      BY <2>1, <3>1 DEF EvidenceInv, TypeInv, Writing
    <3>2. CASE marker # NoFile
      BY <2>1, <3>2, <1>t DEF EvidenceInv, TypeInv, Writing, Target, Strip, Kept
    <3> QED
      BY <3>1, <3>2
  <2> QED
    BY <2>1, <2>2, <2>3 DEF EvidenceInv, TypeInv, OnePlace, Writing, Uploaded, Prepared,
       Place, MarkerTarget, Target, Strip
<1>2. CASE Delete
  <2>1. /\ present /\ present' = FALSE /\ AlreadyArchived(config)
        /\ UNCHANGED <<pc, config, signed, temporary, marker, flushed, version, store>>
    BY <1>2 DEF Delete, writer
  <2>2. /\ marker \in Whole /\ marker.version = version
        /\ marker.target = Target(config)
    BY <2>1 DEF AlreadyArchived, Accepted, SameSignature, EvidenceInv, TypeInv
  <2>3. store[Place(marker.target)] = version
    BY <2>2 DEF EvidenceInv, Backed, Kept
  <2>4. pc = "idle"
    BY <2>2, MarkerFileAssumption DEF EvidenceInv, TypeInv, Writing
  <2>5. Backed'
    BY <2>1, <2>2, <2>3 DEF EvidenceInv, Backed, Kept, OnePlace, Place
  <2> QED
    BY <2>1, <2>4, <2>5 DEF EvidenceInv, TypeInv, OnePlace, Writing, Uploaded, Prepared
<1>3. CASE Kill
  BY <1>3 DEF Kill, file, EvidenceInv, TypeInv, Backed, Kept, OnePlace, Writing,
     Uploaded, Prepared, Place
<1>4. CASE Reconfigure
  BY <1>4 DEF Reconfigure, file, EvidenceInv, TypeInv, Backed, Kept, OnePlace, Writing,
     Uploaded, Prepared, Place
<1>5. CASE Flush
  BY <1>5 DEF Flush, writer, file, EvidenceInv, TypeInv, Backed, Kept, OnePlace, Writing,
     Uploaded, Prepared, Place, MarkerTarget, Target, Strip
<1>6. CASE LosePower
  <2>1. /\ pc' = "idle" /\ flushed' = marker'
        /\ marker' \in {marker, flushed, Torn}
        /\ UNCHANGED <<config, signed, version, present, store>>
    BY <1>6 DEF LosePower, file
  <2>2. Kept' \subseteq Kept
    BY <2>1, MarkerFileAssumption DEF Kept
  <2> QED
    BY <2>1, <2>2 DEF EvidenceInv, TypeInv, Backed, OnePlace, Writing, Uploaded, Prepared,
       Place
<1> QED
  BY <1>1, <1>2, <1>3, <1>4, <1>5, <1>6

LEMMA EvidenceStep == EvidenceInv /\ [MarkerNext]_markerVars => EvidenceInv'
<1> SUFFICES ASSUME EvidenceInv, [MarkerNext]_markerVars PROVE EvidenceInv'
  OBVIOUS
<1>1. CASE Read
  BY <1>1, QuietStep DEF Read, file
<1>2. CASE UNCHANGED markerVars
  BY <1>2, QuietStep DEF markerVars
<1> QED
  BY <1>1, <1>2, WriteStep, OutsideStep DEF MarkerNext

LEMMA EvidenceAlways == MarkerSpec => []EvidenceInv
  BY EvidenceInit, EvidenceStep, PTL DEF MarkerSpec

\* A marker that a process accepts and that matches the block file, or whose file is
\* gone, speaks of an object of the newest version at the place the process uses.
THEOREM MarkersStayEvidence == MarkerSpec => []AcceptedIsEvidence
<1>1. EvidenceInv => AcceptedIsEvidence
  <2> SUFFICES ASSUME EvidenceInv, NEW c \in Configs, AlreadyArchived(c)
               PROVE  store[Place(c)] = version
    BY DEF AcceptedIsEvidence
  <2>1. marker \in Whole /\ marker.target = Target(c)
    BY DEF AlreadyArchived, Accepted, EvidenceInv, TypeInv
  <2>2. marker.version = version \/ ~present
    BY DEF AlreadyArchived, SameSignature
  <2> QED
    BY <2>1, <2>2, TargetPlace DEF EvidenceInv, Backed, Kept
<1> QED
  BY <1>1, EvidenceAlways, PTL

-----------------------------------------------------------------------------
(* A process and the markers of its own store.                             *)

\* Markers hold targets as write_marker writes them; a torn one means that power
\* was lost.
Legible ==
    /\ \A t \in Kept : \E c \in Configs : t.target = Target(c)
    /\ marker = Torn => unpowered

LEMMA LegibleInit == MarkerInit => Legible
  BY MarkerFileAssumption DEF MarkerInit, Legible, Kept

LEMMA LegibleStep == EvidenceInv /\ Legible /\ [MarkerNext]_markerVars => Legible'
<1> SUFFICES ASSUME EvidenceInv, Legible, [MarkerNext]_markerVars PROVE Legible'
  OBVIOUS
<1>1. CASE Replace /\ Write
  <2>1. marker' = [version |-> signed, target |-> Target(config)]
    BY <1>1 DEF Replace, WriterGoes, EvidenceInv, Prepared, MarkerTarget
  <2>2. config \in Configs /\ marker' \in Whole
    BY <2>1, TargetPlace DEF EvidenceInv, TypeInv, Whole
  <2>3. marker' # Torn /\ marker'.target = Target(config)
    BY <2>1, <2>2, MarkerFileAssumption
  <2>4. UNCHANGED <<flushed, unpowered>>
    BY <1>1 DEF Write
  <2> QED
    BY <2>2, <2>3, <2>4 DEF Legible, Kept, Target, Strip
<1>2. CASE Flush
  BY <1>2 DEF Flush, writer, Legible, Kept, Target, Strip
<1>3. CASE LosePower
  <2>1. Kept' \subseteq Kept /\ unpowered'
    BY <1>3, MarkerFileAssumption DEF LosePower, Kept
  <2> QED
    BY <2>1 DEF Legible, Target, Strip
<1>4. CASE UNCHANGED <<marker, flushed, unpowered>>
  BY <1>4 DEF Legible, Kept, Target, Strip
<1>5. CASE Write /\ ~Replace
  BY <1>4, <1>5 DEF Write, Begin, Upload, SourceChanged, OpenTemporary, WriteTemporary
<1>6. CASE Read \/ Modify \/ Delete \/ Kill \/ Reconfigure \/ UNCHANGED markerVars
  BY <1>4, <1>6 DEF Read, Modify, Delete, Kill, Reconfigure, writer, markerVars
<1> QED
  BY <1>1, <1>2, <1>3, <1>5, <1>6 DEF MarkerNext

\* A process is not stopped by a marker of its own store, however the options were
\* spelled when it was written, unless power was lost: no kill leaves a torn one.
THEOREM OwnMarkersStayAccepted == MarkerSpec => []OwnMarkersAccepted
<1>1. EvidenceInv /\ Legible => OwnMarkersAccepted
  <2> SUFFICES ASSUME EvidenceInv, Legible, NEW c \in Configs, marker \in Whole,
                      <<marker.target.endpoint.name, marker.target.destination.name>>
                          = Place(c)
               PROVE  Accepted(c)
    BY DEF OwnMarkersAccepted, Legible, EvidenceInv, TypeInv
  <2>1. PICK d \in Configs : marker.target = Target(d)
    BY DEF Legible, Kept
  <2>2. Place(d) = Place(c)
    BY <2>1, TargetPlace DEF Place
  <2> QED
    BY <2>1, <2>2, PlaceTarget, MarkerFileAssumption DEF Accepted
<1> QED
  BY <1>1, LegibleInit, LegibleStep, EvidenceAlways, PTL DEF MarkerSpec

-----------------------------------------------------------------------------
(* The reader without a lock.                                              *)

\* Between its steps the marker may be replaced, but not by one of another place;
\* if the marker it has read matches by now, or the file has gone, the object was
\* current at some time since it began.
ReaderInv ==
    /\ rpc \in {"idle", "read", "exists", "stat", "yes", "no", "error"}
    /\ rconfig \in Configs /\ meanwhile \in BOOLEAN
    /\ rpc \in {"exists", "stat"} =>
           /\ marker \in Whole /\ marker.target = Target(rconfig)
           /\ seen \in Nat /\ seen <= version
           /\ seen = version \/ ~present => meanwhile
    /\ rpc = "yes" => meanwhile

LEMMA ReaderInit == MarkerInit => ReaderInv
  BY DEF MarkerInit, ReaderInv

\* A matching marker of the reader's place means that the object is current.
LEMMA MatchingIsCurrent ==
    ASSUME EvidenceInv, rconfig \in Configs,
           marker \in Whole, marker.target = Target(rconfig),
           marker.version = version \/ ~present
    PROVE  Current
  BY TargetPlace DEF EvidenceInv, Backed, Kept, Current

LEMMA ReaderStep == EvidenceInv /\ ReaderInv /\ [MarkerNext]_markerVars => ReaderInv'
<1> SUFFICES ASSUME EvidenceInv, ReaderInv, [MarkerNext]_markerVars PROVE ReaderInv'
  OBVIOUS
<1>s. CASE UNCHANGED markerVars
  BY <1>s DEF markerVars, reader, writer, file, ReaderInv, Target, Strip
<1>n. CASE MarkerNext
  <2>m. /\ meanwhile' \in BOOLEAN
        /\ rpc' # "idle" /\ (meanwhile \/ Current) => meanwhile'
    BY <1>n DEF MarkerNext, ReaderInv, Current
  <2>t. version \in Nat /\ present \in BOOLEAN
    BY DEF EvidenceInv, TypeInv
  <2>1. CASE Read
    <3>0. UNCHANGED <<marker, version, present, rconfig>>
      BY <2>1 DEF Read, writer, file, Look, ReadMarker, Exists, Stat, ReadAgain, ReaderGoes
    <3>1. CASE Look
      BY <3>1, <3>0, <2>m DEF Look, ReaderGoes, ReaderInv
    <3>2. CASE ReadMarker /\ ~Accepted(rconfig)
      BY <3>2, <3>0, <2>m DEF ReadMarker, ReaderGoes, ReaderInv
    <3>3. CASE ReadMarker /\ Accepted(rconfig)
      <4>1. /\ marker \in Whole /\ marker.target = Target(rconfig)
            /\ rpc' = "exists" /\ seen' = marker.version
        BY <3>3 DEF ReadMarker, ReaderGoes, Accepted, EvidenceInv, TypeInv
      <4>2. marker.version \in Nat /\ marker.version <= version
        BY <4>1 DEF Whole, EvidenceInv, Backed, Kept
      <4>3. marker.version = version \/ ~present => meanwhile'
        BY <4>1, <2>m, MatchingIsCurrent DEF ReaderInv
      <4> QED
        BY <3>0, <4>1, <4>2, <4>3, <2>m DEF ReaderInv, Target, Strip
    <3>4. CASE Exists
      BY <3>4, <3>0, <2>m DEF Exists, ReaderGoes, ReaderInv, Target, Strip
    <3>5. CASE Stat
      BY <3>5, <3>0, <2>m DEF Stat, ReaderGoes, SameSignature, ReaderInv
    <3>6. CASE ReadAgain
      BY <3>6, <3>0, <2>m DEF ReadAgain, ReaderGoes, ReaderInv
    <3> QED
      BY <2>1, <3>1, <3>2, <3>3, <3>4, <3>5, <3>6 DEF Read
  <2>2. CASE LosePower
    BY <2>2, <2>m DEF LosePower, ReaderInv
  <2>3. CASE Replace /\ Write
    <3>1. UNCHANGED <<rpc, rconfig, seen, version, present>>
      BY <2>3 DEF Write, reader, file
    <3>2. marker' = [version |-> signed, target |-> Target(config)]
      BY <2>3 DEF Replace, WriterGoes, EvidenceInv, Prepared, MarkerTarget
    <3>3. marker' \in Whole /\ marker'.target = Target(config)
      BY <3>2, TargetPlace DEF Whole, EvidenceInv, TypeInv
    <3>4. marker \in Whole => marker.target = Target(config)
      BY <2>3, MarkerFileAssumption DEF Replace, WriterGoes, EvidenceInv, Writing
    <3> QED
      BY <3>1, <3>3, <3>4, <2>m DEF ReaderInv, Target, Strip
  <2>4. CASE Modify
    <3>1. /\ version' = version + 1 /\ present /\ present'
          /\ UNCHANGED <<rpc, rconfig, seen, marker>>
      BY <2>4 DEF Modify, writer, reader
    <3> QED
      BY <3>1, <2>m, <2>t DEF ReaderInv, Target, Strip
  <2>5. CASE Delete
    <3>1. /\ AlreadyArchived(config) /\ present
          /\ UNCHANGED <<rpc, rconfig, seen, marker, version>>
      BY <2>5 DEF Delete, writer, reader
    <3>2. rpc \in {"exists", "stat"} => Current
      BY <3>1, MatchingIsCurrent DEF AlreadyArchived, SameSignature, ReaderInv
    <3> QED
      BY <3>1, <3>2, <2>m DEF ReaderInv, Target, Strip
  <2>6. CASE UNCHANGED <<rpc, rconfig, seen, marker, version, present>>
    BY <2>6, <2>m DEF ReaderInv, Target, Strip
  <2>7. CASE Write /\ ~Replace
    BY <2>6, <2>7 DEF Write, reader, file, Begin, Upload, SourceChanged, OpenTemporary,
       WriteTemporary
  <2>8. CASE Kill \/ Reconfigure \/ Flush
    BY <2>6, <2>8 DEF Kill, Reconfigure, Flush, writer, reader, file
  <2> QED
    BY <1>n, <2>1, <2>2, <2>3, <2>4, <2>5, <2>7, <2>8 DEF MarkerNext
<1> QED
  BY <1>s, <1>n

\* The snapshot check, which reads markers without the lock, takes a file for
\* archived only if it was at some time while it read, whatever was replaced,
\* modified and deleted between its steps.
THEOREM ReaderIsNotMisled == MarkerSpec => []ReaderNotMisled
<1>1. ReaderInv => ReaderNotMisled
  BY DEF ReaderInv, ReaderNotMisled
<1> QED
  BY <1>1, ReaderInit, ReaderStep, EvidenceAlways, PTL DEF MarkerSpec

-----------------------------------------------------------------------------
(* The command line.                                                       *)

\* A value is what a parser of its type accepts; the timeouts have a positive one.
LEMMA ValuesAre ==
    ASSUME NEW s, NEW flags, NEW o \in Options
    PROVE  LET v == Parse(s, flags).value[o] IN
              /\ v \in {Unset, Refused} \/ v \in 0..3
              /\ o \in {"rpc_timeout", "upload_timeout", "verify_timeout"} =>
                    v \in 1..3 \/ v = Refused
<1> DEFINE text == TextOf(s, flags, o)
<1>1. Parse(s, flags).value[o] = Convert(o, text)
  BY DEF Parse
<1>2. Type[o] \in {"nonnegative", "positive", "size", "duration"}
  BY DEF Options, Type
<1>3. Accepts[Type[o]] \subseteq {"zero", "fraction", "positive", "long", "endless"}
  BY <1>2 DEF Accepts
<1>4. Accepts["positive"] = {"positive", "long", "endless"}
  BY DEF Accepts
<1>5. /\ Number["zero"] = 0 /\ Number["fraction"] = 0 /\ Number["positive"] = 1
      /\ Number["long"] = 2 /\ Number["endless"] = 3
  BY DEF Number
<1>6. ASSUME o \in {"rpc_timeout", "upload_timeout", "verify_timeout"}
      PROVE  text # "none" /\ Type[o] = "positive"
  <2>1. Default[o] = "positive" /\ o \notin FromEnvironment
    BY <1>6 DEF Default, FromEnvironment
  <2>2. text # "none"
    BY <2>1 DEF TextOf
  <2> QED
    BY <1>6, <2>2 DEF Type
<1> HIDE DEF text
<1>7. Convert(o, text) \in {Unset, Refused} \/ Convert(o, text) \in 0..3
  BY <1>3, <1>5 DEF Convert
<1>8. ASSUME o \in {"rpc_timeout", "upload_timeout", "verify_timeout"}
      PROVE  Convert(o, text) \in 1..3 \/ Convert(o, text) = Refused
  BY <1>4, <1>5, <1>6, <1>8 DEF Convert
<1> QED
  BY <1>1, <1>7, <1>8

\* Config does not raise on a command line that was parsed.
LEMMA ParsedMeansValid ==
    ASSUME NEW s, NEW flags, ~UsageError(Parse(s, flags))
    PROVE  ~Invalid(Parse(s, flags))
<1> DEFINE args == Parse(s, flags)
<1> HIDE DEF args
<1>1. ASSUME NEW o \in Options PROVE args.value[o] # Refused
  BY DEF UsageError, args
<1>2. {"prune_retain_from_file", "keep_latest_files", "min_free_space",
       "rpc_timeout", "upload_timeout", "verify_timeout"} \subseteq Options
  BY DEF Options, Type
<1>3. ASSUME NEW o \in {"prune_retain_from_file", "keep_latest_files", "min_free_space"}
      PROVE  ~(args.value[o] # Unset /\ args.value[o] < 0)
  <2>1. args.value[o] \in {Unset, Refused} \/ args.value[o] \in 0..3
    BY <1>2, ValuesAre DEF args
  <2> QED
    BY <1>1, <1>2, <2>1
<1>4. ASSUME NEW o \in {"rpc_timeout", "upload_timeout", "verify_timeout"}
      PROVE  ~(args.value[o] <= 0)
  <2>1. args.value[o] \in 1..3 \/ args.value[o] = Refused
    BY <1>2, ValuesAre DEF args
  <2>2. args.value[o] \in 1..3
    BY <1>1, <1>2, <2>1
  <2> QED
    BY <2>2
<1>5. ~Invalid(args)
  BY <1>3, <1>4 DEF Invalid
<1> QED
  BY <1>5 DEF args

\* The parsers and Config agree, whatever the settings: a program ends with a
\* traceback only over an interval longer than a wait can last, or a size limit
\* of the snapshots beyond the largest float.
THEOREM OnlyEndlessSettingsRaise == CommandSpec => []OnlyEndlessRaises
<1>1. CommandInit => OnlyEndlessRaises
  BY CommandLineAssumption DEF CommandInit, OnlyEndlessRaises
<1>2. OnlyEndlessRaises /\ [CommandNext]_commandVars => OnlyEndlessRaises'
  <2> SUFFICES ASSUME OnlyEndlessRaises, [CommandNext]_commandVars PROVE OnlyEndlessRaises'
    OBVIOUS
  <2>1. CASE StartArchiver
    <3>1. archiver'.mode = Mode(Parse(settings, settings.flags))
      BY <2>1 DEF StartArchiver, Archiver
    <3>2. archiver'.mode # "traceback"
      BY <3>1, ParsedMeansValid DEF Mode
    <3> QED
      BY <2>1, <3>2 DEF StartArchiver, OnlyEndlessRaises
  <2>2. CASE WaitFails
    BY <2>2 DEF WaitFails, OnlyEndlessRaises
  <2>3. CASE RunCheck
    <3>1. Check(settings) = "traceback" => settings.limit = "endless"
      BY ParsedMeansValid DEF Check
    <3> QED
      BY <2>3, <3>1 DEF RunCheck, OnlyEndlessRaises
  <2>4. CASE Edit
    BY <2>4, CommandLineAssumption DEF Edit, OnlyEndlessRaises
  <2>5. CASE UNCHANGED commandVars
    BY <2>5 DEF commandVars, OnlyEndlessRaises
  <2> QED
    BY <2>1, <2>2, <2>3, <2>4, <2>5 DEF CommandNext
<1> QED
  BY <1>1, <1>2, PTL DEF CommandSpec
=============================================================================
