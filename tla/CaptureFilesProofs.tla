--------------------------- MODULE CaptureFilesProofs ---------------------------
(* Proofs about the capture files, for any events and keys, any number of     *)
(* days, failures and restarts.                                               *)
EXTENDS CaptureFiles, FiniteSetTheorems, SequenceTheorems, TLAPS

-----------------------------------------------------------------------------
(* The inductive invariant *)

\* An event is in the writer's hands once, and is waiting for its write.
ChannelOk ==
  /\ \A i, j \in 1..Len(channel) : channel[i] = channel[j] => i = j
  /\ \A i \in 1..Len(channel) : stage[channel[i]] = "sent" /\ channel[i] # event
  /\ writer # "idle" => stage[event] = "sent" /\ (linked <=> plain[FileOf(event)] # None)

\* A day is compressed once: no file of this day or of the day that is due has been.
DaysOk ==
  /\ current <= day
  /\ bot # "idle" => current = day
  /\ \A f \in Files : f[2] >= current => gz[f] = None
  /\ \A f \in todo : f[2] < current /\ gz[f] = None

\* The file that is compressed begins with what gzip has read, and the events that
\* follow are known to have come too late.
GzipOk ==
  bot \in {"read", "unlink"} =>
    /\ file[2] < current /\ file \notin todo
    /\ copy \in Seq(Tokens) /\ Len(copy) <= Len(plain[file])
    /\ \A i \in 1..Len(copy) : plain[file][i] = copy[i]
    /\ \A i \in (Len(copy) + 1)..Len(plain[file]), e \in Events :
         plain[file][i] = Whole(e) => e \in overtaken
    /\ gz[file] = IF bot = "read" THEN <<>> ELSE copy

\* An event without its newline is one that was given up, or the one being written.
TipsOk ==
  \A f \in Files, e \in Events :
    plain[f] # None /\ plain[f] # <<>> /\ plain[f][Len(plain[f])] = Whole(e) =>
      \/ stage[e] \in {"failed", "lost"}
      \/ writer = "newline" /\ linked /\ e = event /\ f = FileOf(e)

\* Its body has been written.
HasBody(e) == stage[e] = "written" \/ (writer = "newline" /\ e = event)

KeptOk ==
  \A e \in Events : HasBody(e) =>
    Holds(plain[FileOf(e)], e) \/ Holds(gz[FileOf(e)], e) \/ e \in overtaken

\* Events that cannot be read back, and files that the next event would spoil.
Spoilt ==
  {e \in Events :
    /\ HasBody(e)
    /\ e \notin overtaken
    /\ ~ Readable(plain[FileOf(e)], e)
    /\ ~ Readable(gz[FileOf(e)], e)}

Dirty ==
  {f \in Files :
    /\ plain[f] # None /\ plain[f] # <<>> /\ plain[f][Len(plain[f])] # Newline
    /\ ~ (writer = "newline" /\ f = FileOf(event))}

\* Each failure and each crash leaves at most one of them.
SpoiltOk == Cardinality(Spoilt) + Cardinality(Dirty) <= faults + crashes

IInv == TypeOK /\ ChannelOk /\ DaysOk /\ GzipOk /\ TipsOk /\ KeptOk /\ SpoiltOk
-----------------------------------------------------------------------------
(* Counting *)

\* The events that cannot be read after a step: Readable reads no variable.
LEMMA SpoiltNext ==
  Spoilt' = {e \in Events : /\ HasBody(e)' /\ e \notin overtaken'
                            /\ ~ Readable(plain'[FileOf(e)'], e)
                            /\ ~ Readable(gz'[FileOf(e)'], e)}
  BY DEF Spoilt, Readable, Content, Whole

LEMMA FilesFinite == IsFiniteSet(Events) /\ IsFiniteSet(Files)
<1>1. IsFiniteSet(Events) /\ LastDay \in Int
  BY CaptureAssumption
<1>2. IsFiniteSet(Keys)
  <2> DEFINE f == [e \in Events |-> KeyOf[e]]
  <2>1. f \in Surjection(Events, Keys)
    BY DEF Surjection, Keys
  <2>2. QED
    BY <1>1, <2>1, FS_Surjection DEF ExistsSurjection
<1>3. IsFiniteSet(Days)
  BY <1>1, FS_Interval DEF Days
<1>4. QED
  BY <1>1, <1>2, <1>3, FS_Product DEF Files

\* A set with one element more.
LEMMA OneMore ==
  ASSUME NEW T, NEW x, IsFiniteSet(T)
  PROVE  /\ IsFiniteSet(T \cup {x})
         /\ Cardinality(T) \in Nat /\ Cardinality(T \cup {x}) \in Nat
         /\ Cardinality(T \cup {x}) <= Cardinality(T) + 1
<1>1. Cardinality(T) \in Nat
  BY FS_CardinalityType
<1>2. CASE x \in T
  <2>1. T \cup {x} = T
    BY <1>2
  <2>2. QED
    BY <1>1, <2>1
<1>3. CASE x \notin T
  <2>1. IsFiniteSet(T \cup {x}) /\ Cardinality(T \cup {x}) = Cardinality(T) + 1
    BY <1>3, FS_AddElement
  <2>2. QED
    BY <1>1, <2>1
<1>4. QED
  BY <1>2, <1>3

\* Two counts and what a step may do to them: shrink both,
LEMMA CountStep ==
  ASSUME NEW S \in SUBSET Events, NEW S2 \in SUBSET S,
         NEW D \in SUBSET Files, NEW D2 \in SUBSET D,
         NEW n \in Nat, Cardinality(S) + Cardinality(D) <= n
  PROVE  Cardinality(S2) + Cardinality(D2) <= n
<1>1. IsFiniteSet(S) /\ IsFiniteSet(D)
  BY FilesFinite, FS_Subset
<1>2. /\ IsFiniteSet(S2) /\ Cardinality(S2) <= Cardinality(S)
      /\ IsFiniteSet(D2) /\ Cardinality(D2) <= Cardinality(D)
  BY <1>1, FS_Subset
<1>3. /\ Cardinality(S) \in Nat /\ Cardinality(S2) \in Nat
      /\ Cardinality(D) \in Nat /\ Cardinality(D2) \in Nat
  BY <1>1, <1>2, FS_CardinalityType
<1>4. QED
  BY <1>2, <1>3

\* let one file more be dirty,
LEMMA CountOneMore ==
  ASSUME NEW S \in SUBSET Events, NEW S2 \in SUBSET S, NEW D \in SUBSET Files,
         NEW f, NEW D2 \in SUBSET (D \cup {f}),
         NEW n \in Nat, Cardinality(S) + Cardinality(D) <= n
  PROVE  Cardinality(S2) + Cardinality(D2) <= n + 1
<1>1. IsFiniteSet(S) /\ IsFiniteSet(D)
  BY FilesFinite, FS_Subset
<1>2. /\ IsFiniteSet(D \cup {f}) /\ Cardinality(D) \in Nat /\ Cardinality(D \cup {f}) \in Nat
      /\ Cardinality(D \cup {f}) <= Cardinality(D) + 1
  BY <1>1, OneMore
<1>3. IsFiniteSet(S2) /\ Cardinality(S2) <= Cardinality(S)
  BY <1>1, FS_Subset
<1>4. IsFiniteSet(D2) /\ Cardinality(D2) <= Cardinality(D \cup {f})
  BY <1>2, FS_Subset
<1>5. Cardinality(S) \in Nat /\ Cardinality(S2) \in Nat /\ Cardinality(D2) \in Nat
  BY <1>1, <1>3, <1>4, FS_CardinalityType
<1>6. QED
  BY <1>2, <1>3, <1>4, <1>5

\* or exchange a dirty file for a spoilt event.
LEMMA CountExchange ==
  ASSUME NEW S \in SUBSET Events, NEW e, NEW S2 \in SUBSET (S \cup {e}),
         NEW D \in SUBSET Files, NEW f \in D, NEW D2 \in SUBSET (D \ {f}),
         NEW n \in Nat, Cardinality(S) + Cardinality(D) <= n
  PROVE  Cardinality(S2) + Cardinality(D2) <= n
<1>1. IsFiniteSet(S) /\ IsFiniteSet(D)
  BY FilesFinite, FS_Subset
<1>2. /\ IsFiniteSet(S \cup {e}) /\ Cardinality(S) \in Nat /\ Cardinality(S \cup {e}) \in Nat
      /\ Cardinality(S \cup {e}) <= Cardinality(S) + 1
  BY <1>1, OneMore
<1>3. IsFiniteSet(D \ {f}) /\ Cardinality(D \ {f}) = Cardinality(D) - 1
  BY <1>1, FS_RemoveElement
<1>4. /\ IsFiniteSet(S2) /\ Cardinality(S2) <= Cardinality(S \cup {e})
      /\ IsFiniteSet(D2) /\ Cardinality(D2) <= Cardinality(D \ {f})
  BY <1>2, <1>3, FS_Subset
<1>5. Cardinality(D) \in Nat /\ Cardinality(S2) \in Nat /\ Cardinality(D2) \in Nat
  BY <1>1, <1>4, FS_CardinalityType
<1>6. QED
  BY <1>2, <1>3, <1>4, <1>5

-----------------------------------------------------------------------------
(* One token more *)

LEMMA TokensDiffer ==
  /\ \A e \in Events : Whole(e) \in Tokens /\ Part(e) \in Tokens
  /\ \A e \in Events : Whole(e) # Newline /\ Part(e) # Newline
  /\ \A d, e \in Events : Part(d) # Whole(e)
  /\ \A d, e \in Events : Whole(d) = Whole(e) => d = e
  /\ Newline \in Tokens /\ None \notin Seq(Tokens)
<1>1. \A e \in Events : Whole(e) \in Events \X BOOLEAN /\ Part(e) \in Events \X BOOLEAN
  BY DEF Whole, Part
<1>2. /\ \A d, e \in Events : Part(d) # Whole(e)
      /\ \A d, e \in Events : Whole(d) = Whole(e) => d = e
  BY DEF Whole, Part
<1>3. Newline \notin Events \X BOOLEAN /\ None \notin Seq(Tokens)
  BY CaptureAssumption DEF Tokens
<1>4. QED
  BY <1>1, <1>2, <1>3 DEF Tokens

LEMMA AppendToken ==
  ASSUME NEW c \in Seq(Tokens), NEW x \in Tokens
  PROVE  /\ Append(c, x) \in Seq(Tokens) /\ Append(c, x) # None /\ Append(c, x) # <<>>
         /\ Len(Append(c, x)) = Len(c) + 1 /\ Len(c) \in Nat
         /\ Append(c, x)[Len(c) + 1] = x
         /\ \A i \in 1..Len(c) : Append(c, x)[i] = c[i]
BY AppendProperties, LenProperties, TokensDiffer

\* What a file holds it goes on holding; an event that is the last to be read may be
\* spoilt by what follows it, unless that is a newline.
LEMMA AppendKeeps ==
  ASSUME NEW c \in Seq(Tokens), NEW x \in Tokens, NEW e \in Events
  PROVE  /\ Holds(c, e) => Holds(Append(c, x), e)
         /\ x = Whole(e) => Holds(Append(c, x), e)
         /\ Readable(c, e) /\ (x = Newline \/ c = <<>> \/ c[Len(c)] # Whole(e)) =>
              Readable(Append(c, x), e)
         /\ x = Whole(e) /\ (c = <<>> \/ c[Len(c)] = Newline) => Readable(Append(c, x), e)
<1> DEFINE z == Append(c, x)
<1>1. /\ z \in Seq(Tokens) /\ z # None /\ Len(z) = Len(c) + 1 /\ Len(c) \in Nat
      /\ z[Len(c) + 1] = x /\ \A i \in 1..Len(c) : z[i] = c[i]
  BY AppendToken
<1>2. c # None
  BY TokensDiffer
<1> HIDE DEF z
<1>3. Content(z) = z /\ Content(c) = c
  BY <1>1, <1>2 DEF Content
<1>4. Holds(c, e) => Holds(z, e)
  BY <1>1, <1>3 DEF Holds
<1>5. x = Whole(e) => Holds(z, e)
  BY <1>1, <1>3 DEF Holds
<1>6. ASSUME Readable(c, e), x = Newline \/ c = <<>> \/ c[Len(c)] # Whole(e)
      PROVE  Readable(z, e)
  <2>1. PICK i \in 1..Len(c) :
          /\ c[i] = Whole(e)
          /\ i > 1 => c[i - 1] = Newline
          /\ i < Len(c) => c[i + 1] = Newline
    BY <1>3, <1>6 DEF Readable
  <2>2. i \in 1..Len(z) /\ z[i] = Whole(e)
    BY <1>1, <2>1
  <2>3. i > 1 => z[i - 1] = Newline
    <3>1. i > 1 => i - 1 \in 1..Len(c)
      BY <1>1
    <3>2. QED
      BY <1>1, <2>1, <3>1
  <2>4. z[i + 1] = Newline
    <3>1. CASE i < Len(c)
      <4>1. i + 1 \in 1..Len(c)
        BY <1>1, <3>1
      <4>2. QED
        BY <1>1, <2>1, <3>1, <4>1
    <3>2. CASE i = Len(c)
      <4>1. c # <<>>
        BY <1>1, EmptySeq
      <4>2. QED
        BY <1>1, <1>6, <2>1, <3>2, <4>1
    <3>3. QED
      BY <1>1, <3>1, <3>2
  <2>5. QED
    BY <1>3, <2>2, <2>3, <2>4 DEF Readable
<1>7. ASSUME x = Whole(e), c = <<>> \/ c[Len(c)] = Newline
      PROVE  Readable(z, e)
  <2> DEFINE i == Len(c) + 1
  <2>1. i \in 1..Len(z) /\ z[i] = Whole(e) /\ ~ (i < Len(z)) /\ i - 1 = Len(c)
    BY <1>1, <1>7
  <2>2. i > 1 => z[i - 1] = Newline
    <3>1. ASSUME i > 1 PROVE z[Len(c)] = Newline
      <4>1. Len(c) \in 1..Len(c) /\ c # <<>>
        BY <1>1, <3>1
      <4>2. QED
        BY <1>1, <1>7, <4>1
    <3>2. QED
      BY <2>1, <3>1
  <2> HIDE DEF i
  <2>3. QED
    BY <1>3, <2>1, <2>2 DEF Readable
<1>8. QED
  BY <1>4, <1>5, <1>6, <1>7 DEF z

LEMMA NothingInNone ==
  ASSUME NEW e \in Events
  PROVE  /\ ~ Holds(None, e) /\ ~ Readable(None, e)
         /\ ~ Holds(<<>>, e) /\ ~ Readable(<<>>, e)
BY DEF Holds, Readable, Content
-----------------------------------------------------------------------------
(* The steps that write to no plain file *)

LEMMA FileOfType ==
  ASSUME TypeOK, NEW e \in Events
  PROVE  FileOf(e) \in Files /\ FileOf(e) = <<KeyOf[e], created[e]>>
BY DEF TypeOK, FileOf, Files, Keys

\* Requests are taken and sent, days pass, the Telegram thread goes on, and no
\* compressed file loses an event.
LEMMA QuietKeeps ==
  ASSUME IInv, UNCHANGED <<plain, writerVars, overtaken>>,
         \A f \in Files, e \in Events :
           /\ Holds(gz[f], e) => Holds(gz'[f], e)
           /\ Readable(gz[f], e) => Readable(gz'[f], e),
         faults' + crashes' \in Nat, faults + crashes <= faults' + crashes',
         \A e \in Events : stage'[e] = stage[e] \/
           (stage[e] \in {"new", "relaying"} /\ stage'[e] \in {"relaying", "sent"}),
         \A e \in Events : created'[e] = created[e] \/ stage[e] = "new"
  PROVE  TipsOk' /\ KeptOk' /\ SpoiltOk'
<1> USE DEF IInv
<1>1. \A e \in Events : HasBody(e)' <=> HasBody(e)
  BY DEF HasBody, TypeOK, ChannelOk, writerVars
<1>2. \A e \in Events : HasBody(e) => FileOf(e)' = FileOf(e)
  BY DEF HasBody, TypeOK, ChannelOk, FileOf
<1>3. UNCHANGED <<plain, writer, event, linked, overtaken>>
  BY DEF writerVars
<1>4. TipsOk'
  <2>1. SUFFICES ASSUME NEW f \in Files, NEW e \in Events,
                        plain[f] # None, plain[f] # <<>>, plain[f][Len(plain[f])] = Whole(e)
                 PROVE  \/ stage'[e] \in {"failed", "lost"}
                        \/ writer = "newline" /\ linked /\ e = event /\ f = FileOf(e)'
    BY <1>3 DEF TipsOk, Whole
  <2>2. \/ stage[e] \in {"failed", "lost"}
        \/ writer = "newline" /\ linked /\ e = event /\ f = FileOf(e)
    BY <2>1 DEF TipsOk
  <2>3. CASE stage[e] \in {"failed", "lost"}
    BY <2>3
  <2>4. CASE writer = "newline" /\ linked /\ e = event /\ f = FileOf(e)
    BY <1>2, <2>4 DEF HasBody
  <2>5. QED
    BY <2>2, <2>3, <2>4
<1>5. KeptOk'
  <2>1. SUFFICES ASSUME NEW e \in Events, HasBody(e)
                 PROVE  \/ Holds(plain'[FileOf(e)'], e) \/ Holds(gz'[FileOf(e)'], e)
                        \/ e \in overtaken'
    BY <1>1 DEF KeptOk, Holds, Content, Whole
  <2>2. FileOf(e)' = FileOf(e) /\ FileOf(e) \in Files
    BY <1>2, <2>1, FileOfType
  <2>3. Holds(plain[FileOf(e)], e) \/ Holds(gz[FileOf(e)], e) \/ e \in overtaken
    BY <2>1 DEF KeptOk
  <2>4. Holds(gz[FileOf(e)], e) => Holds(gz'[FileOf(e)], e)
    BY <2>2
  <2>5. Holds(plain'[FileOf(e)], e) \/ Holds(gz'[FileOf(e)], e) \/ e \in overtaken'
    BY <1>3, <2>3, <2>4
  <2>6. QED
    BY <2>2, <2>5
<1>6. SpoiltOk'
  <2>1. Spoilt' \subseteq Spoilt
    <3>1. SUFFICES ASSUME NEW e \in Events, HasBody(e), e \notin overtaken,
                          ~ Readable(plain'[FileOf(e)'], e), ~ Readable(gz'[FileOf(e)'], e)
                   PROVE  e \in Spoilt
      BY <1>1, <1>3, SpoiltNext DEF Spoilt, FileOf
    <3>2. FileOf(e)' = FileOf(e) /\ FileOf(e) \in Files
      BY <1>2, <3>1, FileOfType
    <3>3. Readable(gz[FileOf(e)], e) => Readable(gz'[FileOf(e)], e)
      BY <3>2
    <3>4. ~ Readable(plain[FileOf(e)], e) /\ ~ Readable(gz'[FileOf(e)], e)
      BY <1>3, <3>1, <3>2
    <3>5. QED
      BY <3>1, <3>3, <3>4 DEF Spoilt
  <2>2. Dirty' \subseteq Dirty
    <3>1. writer = "newline" => FileOf(event)' = FileOf(event)
      BY <1>2, <1>3 DEF HasBody, TypeOK
    <3>2. QED
      BY <1>3, <3>1 DEF Dirty
  <2>3. Spoilt \in SUBSET Events /\ Spoilt' \in SUBSET Events
        /\ Dirty \in SUBSET Files /\ Dirty' \in SUBSET Files
    BY DEF Spoilt, Dirty
  <2>4. faults + crashes \in Nat /\ Cardinality(Spoilt) + Cardinality(Dirty) <= faults + crashes
    BY DEF SpoiltOk, TypeOK
  <2>5. Cardinality(Spoilt)' = Cardinality(Spoilt') /\ Cardinality(Dirty)' = Cardinality(Dirty')
    OBVIOUS
  <2>6. Cardinality(Spoilt') + Cardinality(Dirty') <= faults + crashes
    BY <2>1, <2>2, <2>3, <2>4, CountStep
  <2>7. Cardinality(Spoilt') \in Nat /\ Cardinality(Dirty') \in Nat
    BY <2>3, FilesFinite, FS_Subset, FS_CardinalityType
  <2>8. QED
    BY <2>4, <2>6, <2>7 DEF SpoiltOk
<1>7. QED
  BY <1>4, <1>5, <1>6
LEMMA TakeKeeps == ASSUME IInv, NEW e \in Events, Take(e) PROVE IInv'
<1> USE DEF IInv
<1>1. UNCHANGED <<day, channel, disk, writerVars, botVars, bounds, overtaken>>
  BY DEF Take
<1>2. /\ stage' \in [Events -> {"new", "relaying", "sent", "written", "failed", "lost"}]
      /\ created' \in [Events -> Days]
      /\ \A d \in Events : d # e => stage'[d] = stage[d] /\ created'[d] = created[d]
      /\ stage[e] = "new" /\ stage'[e] = "relaying"
  BY DEF Take, TypeOK
<1>3. TypeOK'
  BY <1>1, <1>2 DEF TypeOK, disk, writerVars, botVars, bounds
<1>4. ChannelOk'
  <2>1. \A i \in 1..Len(channel) : channel[i] \in Events
    BY ElementOfSeq DEF TypeOK
  <2>2. writer # "idle" => event # e /\ FileOf(event)' = FileOf(event)
    BY <1>1, <1>2 DEF ChannelOk, TypeOK, FileOf, writerVars
  <2>3. QED
    BY <1>1, <1>2, <2>1, <2>2 DEF ChannelOk, TypeOK, writerVars, disk
<1>5. DaysOk'
  BY <1>1 DEF DaysOk, botVars, disk
<1>6. GzipOk'
  BY <1>1 DEF GzipOk, botVars, disk, Whole
<1>7. TipsOk' /\ KeptOk' /\ SpoiltOk'
  <2>1. faults' + crashes' = faults + crashes /\ faults + crashes \in Nat
    BY <1>1 DEF bounds, TypeOK
  <2>2. faults' + crashes' \in Nat /\ faults + crashes <= faults' + crashes'
    BY <2>1
  <2>3. UNCHANGED <<plain, gz, writerVars, overtaken>>
    BY <1>1 DEF disk
  <2>4. QED
    BY <1>1, <1>2, <2>2, <2>3, QuietKeeps
<1>8. QED
  BY <1>3, <1>4, <1>5, <1>6, <1>7

LEMMA SendKeeps == ASSUME IInv, NEW e \in Events, Send(e) PROVE IInv'
<1> USE DEF IInv
<1>1. UNCHANGED <<day, created, disk, writerVars, botVars, bounds, overtaken>>
  BY DEF Send
<1>2. /\ stage' \in [Events -> {"new", "relaying", "sent", "written", "failed", "lost"}]
      /\ \A d \in Events : d # e => stage'[d] = stage[d]
      /\ stage[e] = "relaying" /\ stage'[e] = "sent"
  BY DEF Send, TypeOK
<1>3. channel \in Seq(Events) /\ channel' = Append(channel, e)
  BY DEF Send, TypeOK
<1>4. /\ channel' \in Seq(Events) /\ Len(channel') = Len(channel) + 1 /\ Len(channel) \in Nat
      /\ channel'[Len(channel) + 1] = e
      /\ \A i \in 1..Len(channel) : channel'[i] = channel[i] /\ channel[i] \in Events
  BY <1>3, AppendProperties, LenProperties, ElementOfSeq
<1>5. TypeOK'
  BY <1>1, <1>2, <1>4 DEF TypeOK, disk, writerVars, botVars, bounds
<1>6. ChannelOk'
  <2>1. \A i : i \in 1..Len(channel') <=> i \in 1..Len(channel) \/ i = Len(channel) + 1
    BY <1>4
  <2>2. \A i \in 1..Len(channel) : channel[i] # e
    BY <1>2 DEF ChannelOk
  <2>3. \A i, j \in 1..Len(channel') : channel'[i] = channel'[j] => i = j
    BY <1>4, <2>1, <2>2 DEF ChannelOk
  <2>4. writer # "idle" => event # e /\ FileOf(event)' = FileOf(event)
    BY <1>1, <1>2 DEF ChannelOk, TypeOK, FileOf, writerVars
  <2>5. event # e
    BY <2>4, CaptureAssumption DEF TypeOK
  <2>6. \A i \in 1..Len(channel') : stage'[channel'[i]] = "sent" /\ channel'[i] # event
    BY <1>2, <1>4, <2>1, <2>2, <2>5 DEF ChannelOk
  <2>7. writer # "idle" => stage'[event] = "sent" /\ (linked <=> plain[FileOf(event)] # None)
    BY <1>2, <2>4 DEF ChannelOk, TypeOK
  <2>8. QED
    BY <1>1, <2>3, <2>4, <2>6, <2>7 DEF ChannelOk, writerVars, disk
<1>7. DaysOk'
  BY <1>1 DEF DaysOk, botVars, disk
<1>8. GzipOk'
  BY <1>1 DEF GzipOk, botVars, disk, Whole
<1>9. TipsOk' /\ KeptOk' /\ SpoiltOk'
  <2>1. faults' + crashes' = faults + crashes /\ faults + crashes \in Nat
    BY <1>1 DEF bounds, TypeOK
  <2>2. faults' + crashes' \in Nat /\ faults + crashes <= faults' + crashes'
    BY <2>1
  <2>3. UNCHANGED <<plain, gz, writerVars, overtaken>>
    BY <1>1 DEF disk
  <2>4. QED
    BY <1>1, <1>2, <2>2, <2>3, QuietKeeps
<1>10. QED
  BY <1>5, <1>6, <1>7, <1>8, <1>9

\* Days and the Telegram thread between two files: what these have in common.
LEMMA BetweenFilesKeeps ==
  ASSUME IInv, NextDay \/ BeginReport \/ (\E f \in Files : Skip(f)) \/ EndReport \/ UNCHANGED vars
  PROVE  IInv'
<1> USE DEF IInv
<1>1. /\ UNCHANGED <<stage, created, channel, disk, writerVars, file, copy, overtaken>>
      /\ faults' \in 0..MaxFaults /\ crashes' = crashes /\ faults <= faults'
  <2>1. /\ UNCHANGED <<stage, created, channel, disk, writerVars, file, copy, overtaken>>
        /\ UNCHANGED bounds \/ Fault
    BY DEF NextDay, BeginReport, Skip, EndReport, vars, botVars
  <2>2. faults' \in 0..MaxFaults /\ crashes' = crashes /\ faults <= faults'
    BY <2>1, CaptureAssumption DEF Fault, bounds, TypeOK
  <2>3. QED
    BY <2>1, <2>2
<1>2. /\ UNCHANGED plain /\ UNCHANGED gz /\ UNCHANGED writer /\ UNCHANGED event /\ UNCHANGED linked
  BY <1>1 DEF disk, writerVars
<1>3. /\ day' \in Days /\ current' \in Days /\ bot' \in {"idle", "next", "read", "unlink"}
      /\ todo' \subseteq Files
      /\ bot' \in {"read", "unlink"} => bot' = bot /\ UNCHANGED todo /\ UNCHANGED current
  <2>1. CASE NextDay
    BY <2>1, CaptureAssumption DEF NextDay, TypeOK, botVars, Days
  <2>2. CASE BeginReport
    BY <2>2 DEF BeginReport, TypeOK
  <2>3. CASE \E f \in Files : Skip(f)
    BY <2>3 DEF Skip, TypeOK
  <2>4. CASE EndReport
    BY <2>4 DEF EndReport, TypeOK
  <2>5. CASE UNCHANGED vars
    BY <2>5 DEF vars, botVars, TypeOK
  <2>6. QED
    BY <2>1, <2>2, <2>3, <2>4, <2>5
<1>4. TypeOK'
  BY <1>1, <1>2, <1>3 DEF TypeOK
<1>5. ChannelOk'
  BY <1>1, <1>2 DEF ChannelOk, FileOf
<1>6. DaysOk'
  <2>1. day \in Int /\ current \in Int /\ \A f \in Files : f[2] \in Int
    BY DEF TypeOK, Days, Files
  <2>2. CASE NextDay
    BY <1>2, <2>1, <2>2 DEF NextDay, DaysOk, botVars
  <2>3. CASE BeginReport
    <3>1. bot = "idle" /\ current # day /\ current' = day
      BY <2>3 DEF BeginReport
    <3>2. current < day /\ UNCHANGED day
      BY <2>1, <2>3, <3>1 DEF BeginReport, DaysOk
    <3>3. \A f \in Files : f[2] >= current' => gz'[f] = None
      BY <1>2, <2>1, <3>1, <3>2 DEF DaysOk
    <3>4. \A f \in todo' : f[2] < current' /\ gz'[f] = None
      <4>1. CASE todo' = {f \in Files : f[2] = current}
        BY <1>2, <2>1, <3>1, <3>2, <4>1 DEF DaysOk
      <4>2. CASE UNCHANGED todo
        <5>1. todo \subseteq Files
          BY DEF TypeOK
        <5>2. QED
          BY <1>2, <2>1, <3>1, <3>2, <4>2, <5>1 DEF DaysOk
      <4>3. QED
        BY <2>3, <4>1, <4>2 DEF BeginReport
    <3>5. QED
      BY <2>1, <3>1, <3>2, <3>3, <3>4 DEF DaysOk
  <2>4. CASE \E f \in Files : Skip(f)
    BY <1>2, <2>4 DEF Skip, DaysOk
  <2>5. CASE EndReport
    BY <1>2, <2>5 DEF EndReport, DaysOk
  <2>6. CASE UNCHANGED vars
    BY <2>6 DEF vars, botVars, disk, DaysOk
  <2>7. QED
    BY <2>2, <2>3, <2>4, <2>5, <2>6
<1>7. GzipOk'
  BY <1>1, <1>2, <1>3 DEF GzipOk, Whole
<1>8. TipsOk' /\ KeptOk' /\ SpoiltOk'
  <2>1. /\ faults \in Nat /\ faults' \in Nat /\ crashes \in Nat /\ crashes' \in Nat
        /\ crashes' = crashes /\ faults <= faults'
    BY <1>1, CaptureAssumption DEF TypeOK
  <2>2. faults' + crashes' \in Nat /\ faults + crashes <= faults' + crashes'
    <3>1. \A a, b, c \in Nat : a <= b => b + c \in Nat /\ a + c <= b + c
      OBVIOUS
    <3>2. QED
      BY <2>1, <3>1
  <2>3. UNCHANGED <<plain, gz, writerVars, overtaken>>
    BY <1>1 DEF disk
  <2>4. QED
    BY <1>1, <1>2, <2>2, <2>3, QuietKeeps
<1>9. QED
  BY <1>4, <1>5, <1>6, <1>7, <1>8
-----------------------------------------------------------------------------
(* gzip *)

LEMMA GzipKeeps == ASSUME IInv, NEW f \in Files, Gzip(f) PROVE IInv'
<1> USE DEF IInv
<1>1. /\ bot = "next" /\ f \in todo /\ plain[f] # None /\ bot' = "read"
      /\ todo' = todo \ {f} /\ file' = f /\ copy' = plain[f]
      /\ gz' = [gz EXCEPT ![f] = <<>>]
      /\ UNCHANGED <<day, stage, created, channel, plain, current, overtaken>>
      /\ UNCHANGED <<writer, event, linked, faults, crashes>>
  BY DEF Gzip, writerVars, bounds
<1>2. gz[f] = None /\ f[2] < current /\ f[2] \in Int /\ current \in Int
  BY <1>1 DEF DaysOk, TypeOK, Files, Days
<1>3. plain[f] \in Seq(Tokens)
  BY <1>1 DEF TypeOK
<1>4. /\ gz' \in [Files -> Seq(Tokens) \cup {None}] /\ gz'[f] = <<>>
      /\ \A g \in Files : g # f => gz'[g] = gz[g]
  <2>1. <<>> \in Seq(Tokens)
    OBVIOUS
  <2>2. QED
    BY <1>1, <2>1 DEF TypeOK
<1>5. TypeOK'
  BY <1>1, <1>4 DEF TypeOK
<1>6. ChannelOk'
  BY <1>1 DEF ChannelOk, FileOf
<1>7. DaysOk'
  <2>1. \A g \in Files : g[2] >= current => g # f
    BY <1>2
  <2>2. \A g \in todo' : g \in Files /\ g # f
    BY <1>1 DEF TypeOK
  <2>3. current <= day /\ bot # "idle" => current = day
    BY DEF DaysOk
  <2>4. QED
    BY <1>1, <1>4, <2>1, <2>2, <2>3 DEF DaysOk
<1>8. GzipOk'
  <2>1. Len(plain[f]) \in Nat
    BY <1>3, LenProperties
  <2>2. ~ \E i \in (Len(plain[f]) + 1)..Len(plain[f]) : TRUE
    BY <2>1
  <2>3. QED
    BY <1>1, <1>2, <1>3, <1>4, <2>1, <2>2 DEF GzipOk
<1>9. TipsOk' /\ KeptOk' /\ SpoiltOk'
  <2>1. faults' + crashes' \in Nat /\ faults + crashes <= faults' + crashes'
    BY <1>1 DEF TypeOK
  <2>2. \A g \in Files, e \in Events :
          /\ Holds(gz[g], e) => Holds(gz'[g], e)
          /\ Readable(gz[g], e) => Readable(gz'[g], e)
    BY <1>2, <1>4, NothingInNone
  <2>3. UNCHANGED <<plain, writerVars, overtaken>>
    BY <1>1 DEF writerVars
  <2>4. QED
    BY <1>1, <2>1, <2>2, <2>3, QuietKeeps
<1>10. QED
  BY <1>5, <1>6, <1>7, <1>8, <1>9

LEMMA GzipOutputKeeps == ASSUME IInv, GzipOutput PROVE IInv'
<1> USE DEF IInv
<1>1. /\ bot = "read"
      /\ UNCHANGED <<day, stage, created, channel, plain, current, todo, overtaken>>
      /\ UNCHANGED <<writer, event, linked, crashes>>
  BY DEF GzipOutput, writerVars, bounds, Fault
<1>2. /\ file \in Files /\ plain[file] # None /\ gz[file] = <<>> /\ copy \in Seq(Tokens)
      /\ file[2] < current /\ file \notin todo /\ file[2] \in Int /\ current \in Int
  BY <1>1 DEF GzipOk, TypeOK, Files, Days
<1>3. \A g \in Files : g[2] >= current => g # file
  BY <1>2
<1>4. CASE /\ bot' = "unlink" /\ gz' = [gz EXCEPT ![file] = copy]
           /\ UNCHANGED <<file, copy, bounds>>
  <2>1. /\ gz' \in [Files -> Seq(Tokens) \cup {None}] /\ gz'[file] = copy
        /\ \A g \in Files : g # file => gz'[g] = gz[g]
    BY <1>2, <1>4 DEF TypeOK
  <2>2. TypeOK'
    BY <1>1, <1>2, <1>4, <2>1 DEF TypeOK, bounds
  <2>3. ChannelOk'
    BY <1>1 DEF ChannelOk, FileOf
  <2>4. DaysOk'
    BY <1>1, <1>2, <1>3, <1>4, <2>1 DEF DaysOk, TypeOK
  <2>5. GzipOk'
    BY <1>1, <1>2, <1>4, <2>1 DEF GzipOk
  <2>6. TipsOk' /\ KeptOk' /\ SpoiltOk'
    <3>1. faults' + crashes' \in Nat /\ faults + crashes <= faults' + crashes'
      BY <1>1, <1>4 DEF TypeOK, bounds
    <3>2. \A g \in Files, e \in Events :
          /\ Holds(gz[g], e) => Holds(gz'[g], e)
          /\ Readable(gz[g], e) => Readable(gz'[g], e)
      BY <1>2, <2>1, NothingInNone
    <3>3. UNCHANGED <<plain, writerVars, overtaken>>
      BY <1>1 DEF writerVars
    <3>4. QED
      BY <1>1, <3>1, <3>2, <3>3, QuietKeeps
  <2>7. QED
    BY <2>2, <2>3, <2>4, <2>5, <2>6
<1>5. CASE bot' = "next" /\ gz' = [gz EXCEPT ![file] = None] /\ Fault
  <2>1. /\ gz' \in [Files -> Seq(Tokens) \cup {None}] /\ gz'[file] = None
        /\ \A g \in Files : g # file => gz'[g] = gz[g]
    BY <1>2, <1>5 DEF TypeOK
  <2>2. /\ faults' \in 0..MaxFaults /\ faults \in Nat /\ crashes \in Nat
        /\ faults' = faults + 1 /\ crashes' = crashes
    BY <1>1, <1>5, CaptureAssumption DEF Fault, TypeOK
  <2>3. TypeOK'
    BY <1>1, <1>5, <2>1, <2>2 DEF TypeOK
  <2>4. ChannelOk'
    BY <1>1 DEF ChannelOk, FileOf
  <2>5. DaysOk'
    BY <1>1, <1>2, <1>3, <1>5, <2>1 DEF DaysOk, TypeOK
  <2>6. GzipOk'
    BY <1>5 DEF GzipOk
  <2>7. TipsOk' /\ KeptOk' /\ SpoiltOk'
    <3>1. faults' + crashes' \in Nat /\ faults + crashes <= faults' + crashes'
      BY <2>2
    <3>2. \A g \in Files, e \in Events :
          /\ Holds(gz[g], e) => Holds(gz'[g], e)
          /\ Readable(gz[g], e) => Readable(gz'[g], e)
      BY <1>2, <2>1, NothingInNone
    <3>3. UNCHANGED <<plain, writerVars, overtaken>>
      BY <1>1 DEF writerVars
    <3>4. QED
      BY <1>1, <3>1, <3>2, <3>3, QuietKeeps
  <2>8. QED
    BY <2>3, <2>4, <2>5, <2>6, <2>7
<1>6. QED
  BY <1>4, <1>5 DEF GzipOutput
\* What the file still has, gzip has read, unless it came too late.
LEMMA CopyHas ==
  ASSUME IInv, bot = "unlink", NEW e \in Events
  PROVE  /\ Holds(plain[file], e) => Holds(gz[file], e) \/ e \in overtaken
         /\ Readable(plain[file], e) => Readable(gz[file], e) \/ e \in overtaken
<1> USE DEF IInv
<1> DEFINE c == plain[file]
<1>1. /\ c \in Seq(Tokens) /\ copy \in Seq(Tokens) /\ gz[file] = copy
      /\ Len(copy) <= Len(c) /\ \A i \in 1..Len(copy) : c[i] = copy[i]
      /\ \A i \in (Len(copy) + 1)..Len(c), d \in Events : c[i] = Whole(d) => d \in overtaken
  BY DEF GzipOk, TypeOK
<1>2. Len(c) \in Nat /\ Len(copy) \in Nat /\ Content(c) = c /\ Content(copy) = copy
  BY <1>1, LenProperties, TokensDiffer DEF Content
<1> HIDE DEF c
<1>3. ASSUME NEW i \in 1..Len(c), c[i] = Whole(e), e \notin overtaken
      PROVE  i \in 1..Len(copy)
  <2>1. ~ (i \in (Len(copy) + 1)..Len(c))
    BY <1>1, <1>3
  <2>2. QED
    BY <1>2, <2>1
<1>4. Holds(c, e) => Holds(copy, e) \/ e \in overtaken
  BY <1>1, <1>2, <1>3 DEF Holds
<1>5. ASSUME Readable(c, e), e \notin overtaken PROVE Readable(copy, e)
  <2>1. PICK i \in 1..Len(c) :
          /\ c[i] = Whole(e)
          /\ i > 1 => c[i - 1] = Newline
          /\ i < Len(c) => c[i + 1] = Newline
    BY <1>2, <1>5 DEF Readable
  <2>2. i \in 1..Len(copy)
    BY <1>3, <1>5, <2>1
  <2>3. i > 1 => copy[i - 1] = Newline
    <3>1. i > 1 => i - 1 \in 1..Len(copy)
      BY <1>2, <2>2
    <3>2. QED
      BY <1>1, <2>1, <3>1
  <2>4. i < Len(copy) => copy[i + 1] = Newline
    <3>1. i < Len(copy) => i + 1 \in 1..Len(copy) /\ i < Len(c)
      BY <1>1, <1>2, <2>2
    <3>2. QED
      BY <1>1, <2>1, <3>1
  <2>5. QED
    BY <1>1, <1>2, <2>1, <2>2, <2>3, <2>4 DEF Readable
<1>6. QED
  BY <1>1, <1>4, <1>5 DEF c

LEMMA GzipUnlinkKeeps == ASSUME IInv, GzipUnlink PROVE IInv'
<1> USE DEF IInv
<1>1. /\ bot = "unlink" /\ bot' = "next" /\ file \in Files /\ file' = None
      /\ plain' = [plain EXCEPT ![file] = None]
      /\ linked' = (linked /\ ~ (writer # "idle" /\ FileOf(event) = file))
      /\ UNCHANGED <<day, stage, created, channel, gz, writer, event, current, todo>>
      /\ UNCHANGED <<faults, crashes, overtaken>>
  BY DEF GzipUnlink, TypeOK, bounds
<1>2. /\ plain' \in [Files -> Seq(Tokens) \cup {None}] /\ plain'[file] = None
      /\ \A f \in Files : f # file => plain'[f] = plain[f]
  BY <1>1 DEF TypeOK
<1>3. linked' \in BOOLEAN /\ (~ linked' => writer # "idle")
  BY <1>1 DEF TypeOK
<1>4. \A e \in Events : FileOf(e) \in Files /\ FileOf(e)' = FileOf(e)
  BY <1>1, FileOfType DEF FileOf
<1>5. writer # "idle" => event \in Events
  BY DEF TypeOK
<1>6. TypeOK'
  BY <1>1, <1>2, <1>3 DEF TypeOK
<1>7. ChannelOk'
  <2>1. writer # "idle" => (linked' <=> plain'[FileOf(event)] # None)
    BY <1>1, <1>2, <1>4, <1>5 DEF ChannelOk
  <2>2. QED
    BY <1>1, <1>4, <1>5, <2>1 DEF ChannelOk
<1>8. DaysOk' /\ GzipOk'
  BY <1>1 DEF DaysOk, GzipOk
<1>9. TipsOk'
  <2>1. SUFFICES ASSUME NEW f \in Files, NEW e \in Events,
                        plain'[f] # None, plain'[f] # <<>>, plain'[f][Len(plain'[f])] = Whole(e)
                 PROVE  \/ stage[e] \in {"failed", "lost"}
                        \/ writer = "newline" /\ linked' /\ e = event /\ f = FileOf(e)
    BY <1>1, <1>4 DEF TipsOk, Whole
  <2>2. f # file /\ plain'[f] = plain[f]
    BY <1>2, <2>1
  <2>3. \/ stage[e] \in {"failed", "lost"}
        \/ writer = "newline" /\ linked /\ e = event /\ f = FileOf(e)
    BY <2>1, <2>2 DEF TipsOk
  <2>4. QED
    BY <1>1, <2>2, <2>3
<1>10. \A e \in Events : HasBody(e)' <=> HasBody(e)
  BY <1>1 DEF HasBody
<1>11. KeptOk'
  <2>1. SUFFICES ASSUME NEW e \in Events, HasBody(e)
                 PROVE  \/ Holds(plain'[FileOf(e)], e) \/ Holds(gz[FileOf(e)], e)
                        \/ e \in overtaken
    BY <1>1, <1>4, <1>10 DEF KeptOk, Holds, Content, Whole
  <2>2. Holds(plain[FileOf(e)], e) \/ Holds(gz[FileOf(e)], e) \/ e \in overtaken
    BY <2>1 DEF KeptOk
  <2>3. CASE FileOf(e) = file
    BY <1>1, <2>2, <2>3, CopyHas
  <2>4. CASE FileOf(e) # file
    BY <1>2, <1>4, <2>2, <2>4
  <2>5. QED
    BY <2>3, <2>4
<1>12. SpoiltOk'
  <2>1. Spoilt' \subseteq Spoilt
    <3>1. SUFFICES ASSUME NEW e \in Events, HasBody(e), e \notin overtaken,
                          ~ Readable(plain'[FileOf(e)], e), ~ Readable(gz[FileOf(e)], e)
                   PROVE  e \in Spoilt
      BY <1>1, <1>4, <1>10, SpoiltNext DEF Spoilt, FileOf
    <3>2. ~ Readable(plain[FileOf(e)], e)
      <4>1. CASE FileOf(e) = file
        BY <1>1, <3>1, <4>1, CopyHas
      <4>2. CASE FileOf(e) # file
        BY <1>2, <1>4, <3>1, <4>2
      <4>3. QED
        BY <4>1, <4>2
    <3>3. QED
      BY <3>1, <3>2 DEF Spoilt
  <2>2. Dirty' \subseteq Dirty
    <3>1. FileOf(event)' = FileOf(event)
      BY <1>1 DEF FileOf
    <3>2. QED
      BY <1>1, <1>2, <3>1 DEF Dirty
  <2>3. /\ Spoilt \in SUBSET Events /\ Spoilt' \in SUBSET Events
        /\ Dirty \in SUBSET Files /\ Dirty' \in SUBSET Files
    BY DEF Spoilt, Dirty
  <2>4. faults + crashes \in Nat /\ Cardinality(Spoilt) + Cardinality(Dirty) <= faults + crashes
    BY DEF SpoiltOk, TypeOK
  <2>5. Cardinality(Spoilt') + Cardinality(Dirty') <= faults + crashes
    BY <2>1, <2>2, <2>3, <2>4, CountStep
  <2>6. QED
    BY <1>1, <2>5 DEF SpoiltOk
<1>13. QED
  BY <1>6, <1>7, <1>8, <1>9, <1>11, <1>12

-----------------------------------------------------------------------------
(* The writer *)

LEMMA OpenKeeps == ASSUME IInv, Open PROVE IInv'
<1> USE DEF IInv
<1> DEFINE e0 == Head(channel)  F == FileOf(e0)
<1>1. /\ writer = "idle" /\ channel # <<>> /\ writer' = "body" /\ event' = e0
      /\ channel' = Tail(channel) /\ plain' = [plain EXCEPT ![F] = Content(@)]
      /\ UNCHANGED <<day, stage, created, gz, linked, overtaken>>
      /\ UNCHANGED <<bot, current, todo, file, copy, faults, crashes>>
      /\ linked
  BY DEF Open, botVars, bounds, TypeOK
<1>2. /\ e0 \in Events /\ e0 = channel[1] /\ channel' \in Seq(Events)
      /\ Len(channel') = Len(channel) - 1 /\ Len(channel) \in Nat \ {0}
      /\ \A i \in 1..Len(channel') : channel'[i] = channel[i + 1]
  BY <1>1, HeadTailProperties, LenProperties, EmptySeq DEF TypeOK
<1>3. F \in Files /\ \A e \in Events : FileOf(e) \in Files /\ FileOf(e)' = FileOf(e)
  BY <1>1, <1>2, FileOfType DEF FileOf
<1>4. FileOf(event)' = F
  BY <1>1 DEF FileOf
<1> HIDE DEF e0, F
<1>5. /\ plain' \in [Files -> Seq(Tokens) \cup {None}] /\ plain'[F] = Content(plain[F])
      /\ plain'[F] # None
      /\ \A f \in Files : plain[f] # None => plain'[f] = plain[f]
      /\ \A f \in Files : plain'[f] = plain[f] \/ plain'[f] = <<>>
  <2>1. plain \in [Files -> Seq(Tokens) \cup {None}] /\ <<>> \in Seq(Tokens)
    BY DEF TypeOK
  <2>2. Content(plain[F]) \in Seq(Tokens) /\ (plain[F] # None => Content(plain[F]) = plain[F])
        /\ (plain[F] = None => Content(plain[F]) = <<>>)
    BY <1>3, <2>1 DEF Content
  <2>3. QED
    BY <1>1, <1>3, <2>1, <2>2, TokensDiffer
<1>6. TypeOK'
  <2>1. event' # None
    BY <1>1, <1>2, CaptureAssumption
  <2>2. bot' \in {"read", "unlink"} => file' \in Files /\ plain'[file'] # None
    BY <1>1, <1>5 DEF TypeOK
  <2>3. QED
    BY <1>1, <1>2, <1>5, <2>1, <2>2 DEF TypeOK
<1>7. ChannelOk'
  <2>1. \A i \in 1..Len(channel') : i + 1 \in 1..Len(channel) /\ i + 1 # 1 /\ 1 \in 1..Len(channel)
    BY <1>2
  <2>2. \A i, j \in 1..Len(channel) : channel[i] = channel[j] => i = j
    BY DEF ChannelOk
  <2>3. ASSUME NEW i \in 1..Len(channel'), NEW j \in 1..Len(channel'), channel'[i] = channel'[j]
        PROVE  i = j
    <3>1. i + 1 = j + 1
      BY <1>2, <2>1, <2>2, <2>3
    <3>2. QED
      BY <1>2, <3>1
  <2>4. \A i \in 1..Len(channel') : stage'[channel'[i]] = "sent" /\ channel'[i] # event'
    BY <1>1, <1>2, <2>1, <2>2 DEF ChannelOk
  <2>5. 1 \in 1..Len(channel)
    BY <1>2
  <2>6. stage'[event'] = "sent"
    BY <1>1, <1>2, <2>5 DEF ChannelOk
  <2>7. QED
    BY <1>1, <1>4, <1>5, <2>3, <2>4, <2>6 DEF ChannelOk
<1>8. DaysOk'
  BY <1>1 DEF DaysOk
<1>9. GzipOk'
  <2>1. bot \in {"read", "unlink"} => plain'[file] = plain[file]
    BY <1>5 DEF TypeOK
  <2>2. QED
    BY <1>1, <2>1 DEF GzipOk, Whole
<1>10. TipsOk'
  <2>1. SUFFICES ASSUME NEW f \in Files, NEW e \in Events,
                        plain'[f] # None, plain'[f] # <<>>, plain'[f][Len(plain'[f])] = Whole(e)
                 PROVE  stage[e] \in {"failed", "lost"}
    BY <1>1 DEF TipsOk, Whole
  <2>2. plain'[f] = plain[f]
    BY <1>5, <2>1
  <2>3. QED
    BY <1>1, <2>1, <2>2 DEF TipsOk
<1>11. \A e \in Events : HasBody(e)' <=> HasBody(e)
  BY <1>1 DEF HasBody
<1>12. \A f \in Files, e \in Events :
         /\ Holds(plain[f], e) => Holds(plain'[f], e)
         /\ Readable(plain[f], e) => Readable(plain'[f], e)
  BY <1>5, NothingInNone
<1>13. KeptOk'
  <2>1. SUFFICES ASSUME NEW e \in Events, HasBody(e)
                 PROVE  \/ Holds(plain'[FileOf(e)], e) \/ Holds(gz[FileOf(e)], e)
                        \/ e \in overtaken
    BY <1>1, <1>3, <1>11 DEF KeptOk, Holds, Content, Whole
  <2>2. QED
    BY <1>3, <1>12, <2>1 DEF KeptOk
<1>14. SpoiltOk'
  <2>1. Spoilt' \subseteq Spoilt
    <3>1. SUFFICES ASSUME NEW e \in Events, HasBody(e), e \notin overtaken,
                          ~ Readable(plain'[FileOf(e)], e), ~ Readable(gz[FileOf(e)], e)
                   PROVE  e \in Spoilt
      BY <1>1, <1>3, <1>11, SpoiltNext DEF Spoilt, FileOf
    <3>2. QED
      BY <1>3, <1>12, <3>1 DEF Spoilt
  <2>2. Dirty' \subseteq Dirty
    BY <1>1, <1>5 DEF Dirty
  <2>3. /\ Spoilt \in SUBSET Events /\ Spoilt' \in SUBSET Events
        /\ Dirty \in SUBSET Files /\ Dirty' \in SUBSET Files
    BY DEF Spoilt, Dirty
  <2>4. faults + crashes \in Nat /\ Cardinality(Spoilt) + Cardinality(Dirty) <= faults + crashes
    BY DEF SpoiltOk, TypeOK
  <2>5. Cardinality(Spoilt') + Cardinality(Dirty') <= faults + crashes
    BY <2>1, <2>2, <2>3, <2>4, CountStep
  <2>6. QED
    BY <1>1, <2>5 DEF SpoiltOk
<1>15. QED
  BY <1>6, <1>7, <1>8, <1>9, <1>10, <1>13, <1>14
\* A write appends to the event's file, or goes nowhere if the file has been removed.
LEMMA WriteEffect ==
  ASSUME IInv, writer # "idle", NEW x \in Tokens, Write(FileOf(event), x)
  PROVE  /\ event \in Events /\ FileOf(event) \in Files
         /\ plain' \in [Files -> Seq(Tokens) \cup {None}]
         /\ \A f \in Files : f # FileOf(event) => plain'[f] = plain[f]
         /\ \A f \in Files : plain'[f] = None <=> plain[f] = None
         /\ linked => plain[FileOf(event)] \in Seq(Tokens)
                      /\ plain'[FileOf(event)] = Append(plain[FileOf(event)], x)
         /\ ~ linked => plain' = plain /\ plain[FileOf(event)] = None
<1> USE DEF IInv
<1> DEFINE F == FileOf(event)
<1>1. event \in Events /\ F \in Files /\ (linked <=> plain[F] # None)
  BY FileOfType DEF TypeOK, ChannelOk
<1>2. plain \in [Files -> Seq(Tokens) \cup {None}]
  BY DEF TypeOK
<1> HIDE DEF F
<1>3. CASE linked
  <2>1. plain' = [plain EXCEPT ![F] = Append(@, x)] /\ plain[F] \in Seq(Tokens)
    BY <1>1, <1>2, <1>3 DEF Write, F
  <2>2. Append(plain[F], x) \in Seq(Tokens) /\ Append(plain[F], x) # None
    BY <2>1, AppendToken
  <2>3. QED
    BY <1>1, <1>2, <1>3, <2>1, <2>2, TokensDiffer DEF F
<1>4. CASE ~ linked
  BY <1>1, <1>2, <1>4 DEF Write, F
<1>5. QED
  BY <1>3, <1>4

\* What the files hold they go on holding; only an event at the end of a line may
\* be spoilt.
LEMMA WriteKeeps ==
  ASSUME IInv, writer # "idle", NEW x \in Tokens, Write(FileOf(event), x),
         NEW f \in Files, NEW e \in Events
  PROVE  /\ Holds(plain[f], e) => Holds(plain'[f], e)
         /\ Readable(plain[f], e) /\ (x = Newline \/ (writer = "body" /\ HasBody(e))) =>
              Readable(plain'[f], e)
<1> USE DEF IInv
<1>1. CASE f = FileOf(event) /\ linked
  <2> DEFINE c == plain[f]
  <2>1. c \in Seq(Tokens) /\ plain'[f] = Append(c, x) /\ c # None
    BY <1>1, WriteEffect, TokensDiffer
  <2>2. writer = "body" /\ HasBody(e) => c = <<>> \/ c[Len(c)] # Whole(e)
    <3>1. SUFFICES ASSUME writer = "body", HasBody(e), c # <<>>, c[Len(c)] = Whole(e)
                   PROVE  FALSE
      OBVIOUS
    <3>2. stage[e] \in {"failed", "lost"}
      BY <2>1, <3>1 DEF TipsOk
    <3>3. stage[e] = "written"
      BY <3>1 DEF HasBody
    <3>4. QED
      BY <3>2, <3>3
  <2> HIDE DEF c
  <2>3. QED
    BY <2>1, <2>2, AppendKeeps DEF c
<1>2. CASE ~ (f = FileOf(event) /\ linked)
  <2>1. plain'[f] = plain[f]
    BY <1>2, WriteEffect
  <2>2. QED
    BY <2>1
<1>3. QED
  BY <1>1, <1>2

\* gzip goes on with the file it works on: what is appended to it comes too late.
LEMMA WriteGzip ==
  ASSUME IInv, writer # "idle", NEW x \in Tokens, Write(FileOf(event), x),
         UNCHANGED <<bot, file, todo, copy, gz, current>>, overtaken \subseteq overtaken',
         bot \in {"read", "unlink"} /\ file = FileOf(event) =>
           \A e \in Events : x = Whole(e) => e \in overtaken'
  PROVE  GzipOk'
<1> USE DEF IInv
<1>1. SUFFICES ASSUME bot \in {"read", "unlink"} PROVE GzipOk'
  BY DEF GzipOk
<1> DEFINE c == plain[file]  z == plain'[file]
<1>2. /\ file \in Files /\ c \in Seq(Tokens) /\ file[2] < current /\ file \notin todo
      /\ copy \in Seq(Tokens) /\ Len(copy) <= Len(c) /\ Len(c) \in Nat /\ Len(copy) \in Nat
      /\ \A i \in 1..Len(copy) : c[i] = copy[i]
      /\ \A i \in (Len(copy) + 1)..Len(c), e \in Events : c[i] = Whole(e) => e \in overtaken
      /\ gz[file] = IF bot = "read" THEN <<>> ELSE copy
  BY <1>1, LenProperties DEF GzipOk, TypeOK
<1> HIDE DEF c, z
<1>3. CASE file = FileOf(event) /\ linked
  <2>1. z = Append(c, x)
    BY <1>3, WriteEffect DEF c, z
  <2>2. /\ Len(z) = Len(c) + 1 /\ z[Len(c) + 1] = x
        /\ \A i \in 1..Len(c) : z[i] = c[i]
    BY <1>2, <2>1, AppendToken
  <2>3. Len(copy) <= Len(z) /\ \A i \in 1..Len(copy) : i \in 1..Len(c)
    BY <1>2, <2>2
  <2>4. ASSUME NEW i \in (Len(copy) + 1)..Len(z), NEW e \in Events, z[i] = Whole(e)
        PROVE  e \in overtaken'
    <3>1. CASE i = Len(c) + 1
      BY <1>1, <1>3, <2>2, <2>4, <3>1
    <3>2. CASE i # Len(c) + 1
      <4>1. i \in 1..Len(c) /\ i \in (Len(copy) + 1)..Len(c)
        BY <1>2, <2>2, <3>2
      <4>2. QED
        BY <1>2, <2>2, <2>4, <4>1
    <3>3. QED
      BY <3>1, <3>2
  <2>5. \A i \in 1..Len(copy) : z[i] = copy[i]
    BY <1>2, <2>2, <2>3
  <2>6. QED
    BY <1>2, <2>3, <2>4, <2>5 DEF GzipOk, Whole, z
<1>4. CASE ~ (file = FileOf(event) /\ linked)
  <2>1. z = c
    BY <1>2, <1>4, WriteEffect DEF c, z
  <2>2. QED
    BY <1>2, <2>1 DEF GzipOk, Whole, z
<1>5. QED
  BY <1>3, <1>4

LEMMA WriteBodyKeeps == ASSUME IInv, WriteBody PROVE IInv'
<1> USE DEF IInv
<1> DEFINE F == FileOf(event)
<1>1. /\ writer = "body" /\ writer' = "newline" /\ Write(F, Whole(event))
      /\ overtaken' = IF Overtakes THEN overtaken \cup {event} ELSE overtaken
      /\ UNCHANGED <<day, stage, created, channel, gz, event, linked>>
      /\ UNCHANGED <<bot, current, todo, file, copy, faults, crashes>>
  BY DEF WriteBody, botVars, bounds
<1>2. event \in Events /\ Whole(event) \in Tokens
  BY <1>1, TokensDiffer DEF TypeOK
<1>3. /\ F \in Files /\ plain' \in [Files -> Seq(Tokens) \cup {None}]
      /\ \A f \in Files : f # F => plain'[f] = plain[f]
      /\ \A f \in Files : plain'[f] = None <=> plain[f] = None
      /\ linked => plain[F] \in Seq(Tokens) /\ plain'[F] = Append(plain[F], Whole(event))
      /\ ~ linked => plain' = plain /\ plain[F] = None
  BY <1>1, <1>2, WriteEffect
<1>4. \A e \in Events : FileOf(e) \in Files /\ FileOf(e)' = FileOf(e)
  BY <1>1, FileOfType DEF FileOf
<1>5. FileOf(event)' = F
  BY <1>1 DEF FileOf
<1> HIDE DEF F
<1>6. TypeOK'
  <2>1. bot \in {"read", "unlink"} => file \in Files /\ plain'[file] # None
    BY <1>3 DEF TypeOK
  <2>2. event # None
    BY <1>1 DEF TypeOK
  <2>3. QED
    BY <1>1, <1>2, <1>3, <2>1, <2>2 DEF TypeOK
<1>7. ChannelOk'
  BY <1>1, <1>3, <1>5 DEF ChannelOk, F
<1>8. DaysOk'
  BY <1>1 DEF DaysOk
<1>9. GzipOk'
  <2>1. overtaken \subseteq overtaken'
    BY <1>1
  <2>2. bot \in {"read", "unlink"} /\ file = FileOf(event) =>
          \A e \in Events : Whole(event) = Whole(e) => e \in overtaken'
    BY <1>1, <1>2, TokensDiffer DEF Overtakes
  <2>3. Write(FileOf(event), Whole(event))
    BY <1>1 DEF F
  <2>4. QED
    BY <1>1, <1>2, <2>1, <2>2, <2>3, WriteGzip
<1>10. TipsOk'
  <2>1. SUFFICES ASSUME NEW f \in Files, NEW e \in Events,
                        plain'[f] # None, plain'[f] # <<>>, plain'[f][Len(plain'[f])] = Whole(e)
                 PROVE  stage[e] \in {"failed", "lost"} \/ (linked /\ e = event /\ f = FileOf(e))
    BY <1>1, <1>4 DEF TipsOk, Whole
  <2>2. CASE f = F /\ linked
    <3>1. plain[F] \in Seq(Tokens) /\ plain'[F] = Append(plain[F], Whole(event))
      BY <1>3, <2>2
    <3>2. plain'[F][Len(plain'[F])] = Whole(event)
      BY <1>2, <3>1, AppendToken
    <3>3. e = event
      BY <1>2, <2>1, <2>2, <3>2, TokensDiffer
    <3>4. QED
      BY <2>2, <3>3 DEF F
  <2>3. CASE ~ (f = F /\ linked)
    <3>1. plain'[f] = plain[f]
      BY <1>3, <2>3
    <3>2. QED
      BY <1>1, <2>1, <3>1 DEF TipsOk
  <2>4. QED
    BY <2>2, <2>3
<1>11. \A e \in Events : HasBody(e)' => HasBody(e) \/ e = event
  BY <1>1 DEF HasBody
<1>12. \A f \in Files, e \in Events :
         /\ Holds(plain[f], e) => Holds(plain'[f], e)
         /\ Readable(plain[f], e) /\ HasBody(e) => Readable(plain'[f], e)
  BY <1>1, <1>2, WriteKeeps DEF F
<1>13. linked => Holds(plain'[F], event)
  <2>1. SUFFICES ASSUME linked PROVE Holds(plain'[F], event)
    OBVIOUS
  <2>2. plain[F] \in Seq(Tokens) /\ plain'[F] = Append(plain[F], Whole(event))
    BY <1>3, <2>1
  <2>3. Holds(Append(plain[F], Whole(event)), event)
    BY <1>2, <2>2, AppendKeeps
  <2>4. QED
    BY <2>2, <2>3
<1>14. ~ linked => event \in overtaken'
  BY <1>1 DEF Overtakes
<1>15. KeptOk'
  <2>1. SUFFICES ASSUME NEW e \in Events, HasBody(e) \/ e = event
                 PROVE  \/ Holds(plain'[FileOf(e)], e) \/ Holds(gz[FileOf(e)], e)
                        \/ e \in overtaken'
    BY <1>1, <1>4, <1>11 DEF KeptOk, Holds, Content, Whole
  <2>2. CASE HasBody(e)
    BY <1>1, <1>4, <1>12, <2>2 DEF KeptOk
  <2>3. CASE e = event
    BY <1>13, <1>14, <2>3 DEF F
  <2>4. QED
    BY <2>1, <2>2, <2>3
<1>16. SpoiltOk'
  <2>1. \A e \in Events : e \in Spoilt' => e \in Spoilt \/ e = event
    <3>1. SUFFICES ASSUME NEW e \in Events, HasBody(e), e \notin overtaken',
                          ~ Readable(plain'[FileOf(e)], e), ~ Readable(gz[FileOf(e)], e)
                   PROVE  e \in Spoilt
      BY <1>1, <1>4, <1>11, SpoiltNext DEF Spoilt, FileOf
    <3>2. QED
      BY <1>1, <1>4, <1>12, <3>1 DEF Spoilt
  <2>2. Dirty' \subseteq Dirty \ {F}
    BY <1>1, <1>3, <1>5 DEF Dirty
  <2>3. /\ Spoilt \in SUBSET Events /\ Spoilt' \in SUBSET Events
        /\ Dirty \in SUBSET Files /\ Dirty' \in SUBSET Files
    BY DEF Spoilt, Dirty
  <2>4. faults + crashes \in Nat /\ Cardinality(Spoilt) + Cardinality(Dirty) <= faults + crashes
    BY DEF SpoiltOk, TypeOK
  <2>5. CASE event \in Spoilt' /\ F \in Dirty
    <3>1. Spoilt' \subseteq Spoilt \cup {event}
      BY <2>1, <2>3
    <3>2. Spoilt' \in SUBSET (Spoilt \cup {event}) /\ Dirty' \in SUBSET (Dirty \ {F})
      BY <2>2, <3>1
    <3>3. Cardinality(Spoilt') + Cardinality(Dirty') <= faults + crashes
      BY <2>3, <2>4, <2>5, <3>2, CountExchange
    <3>4. QED
      BY <1>1, <3>3 DEF SpoiltOk
  <2>6. CASE F \notin Dirty
    <3>1. linked => Readable(plain'[F], event)
      <4>1. linked => plain[F] = <<>> \/ plain[F][Len(plain[F])] = Newline
        BY <1>1, <1>3, <2>6, TokensDiffer DEF Dirty
      <4>2. ASSUME linked PROVE Readable(plain'[F], event)
        <5>1. plain[F] \in Seq(Tokens) /\ plain'[F] = Append(plain[F], Whole(event))
          BY <1>3, <4>2
        <5>2. Readable(Append(plain[F], Whole(event)), event)
          BY <1>2, <4>1, <4>2, <5>1, AppendKeeps
        <5>3. QED
          BY <5>1, <5>2
      <4>3. QED
        BY <4>2
    <3>2. event \notin Spoilt'
      BY <1>1, <1>5, <1>14, <3>1, SpoiltNext DEF Spoilt, FileOf
    <3>3. Spoilt' \subseteq Spoilt /\ Dirty' \subseteq Dirty
      BY <2>1, <2>2, <2>3, <3>2
    <3>4. Cardinality(Spoilt') + Cardinality(Dirty') <= faults + crashes
      BY <2>3, <2>4, <3>3, CountStep
    <3>5. QED
      BY <1>1, <3>4 DEF SpoiltOk
  <2>7. CASE event \notin Spoilt'
    <3>1. Spoilt' \subseteq Spoilt /\ Dirty' \subseteq Dirty
      BY <2>1, <2>2, <2>3, <2>7
    <3>2. Cardinality(Spoilt') + Cardinality(Dirty') <= faults + crashes
      BY <2>3, <2>4, <3>1, CountStep
    <3>3. QED
      BY <1>1, <3>2 DEF SpoiltOk
  <2>8. QED
    BY <2>5, <2>6, <2>7
<1>17. QED
  BY <1>6, <1>7, <1>8, <1>9, <1>10, <1>15, <1>16
LEMMA WriteNewlineKeeps == ASSUME IInv, WriteNewline PROVE IInv'
<1> USE DEF IInv
<1> DEFINE F == FileOf(event)
<1>1. /\ writer = "newline" /\ writer' = "idle" /\ Write(F, Newline)
      /\ stage' = [stage EXCEPT ![event] = "written"] /\ event' = None /\ linked' = TRUE
      /\ UNCHANGED <<day, created, channel, gz, overtaken>>
      /\ UNCHANGED <<bot, current, todo, file, copy, faults, crashes>>
  BY DEF WriteNewline, Settle, botVars, bounds
<1>2. event \in Events /\ Newline \in Tokens /\ stage[event] = "sent"
  BY <1>1, TokensDiffer DEF TypeOK, ChannelOk
<1>3. /\ F \in Files /\ plain' \in [Files -> Seq(Tokens) \cup {None}]
      /\ \A f \in Files : f # F => plain'[f] = plain[f]
      /\ \A f \in Files : plain'[f] = None <=> plain[f] = None
      /\ linked => plain[F] \in Seq(Tokens) /\ plain'[F] = Append(plain[F], Newline)
      /\ ~ linked => plain' = plain /\ plain[F] = None
  BY <1>1, <1>2, WriteEffect
<1>4. \A e \in Events : FileOf(e) \in Files /\ FileOf(e)' = FileOf(e)
  BY <1>1, FileOfType DEF FileOf
<1>5. /\ stage' \in [Events -> {"new", "relaying", "sent", "written", "failed", "lost"}]
      /\ stage'[event] = "written" /\ \A e \in Events : e # event => stage'[e] = stage[e]
  BY <1>1, <1>2 DEF TypeOK
<1>6. ASSUME plain'[F] # None
      PROVE  plain'[F] # <<>> /\ plain'[F][Len(plain'[F])] = Newline
  <2>1. plain[F] \in Seq(Tokens) /\ plain'[F] = Append(plain[F], Newline)
    BY <1>3, <1>6
  <2>2. QED
    BY <1>2, <2>1, AppendToken
<1> HIDE DEF F
<1>7. TypeOK'
  <2>1. bot \in {"read", "unlink"} => file \in Files /\ plain'[file] # None
    BY <1>3 DEF TypeOK
  <2>2. QED
    BY <1>1, <1>3, <1>5, <2>1 DEF TypeOK
<1>8. ChannelOk'
  <2>1. \A i \in 1..Len(channel) : channel[i] \in Events /\ channel[i] # event
    BY ElementOfSeq DEF TypeOK, ChannelOk
  <2>2. \A i \in 1..Len(channel) : channel[i] # None
    BY <2>1, CaptureAssumption
  <2>3. QED
    BY <1>1, <1>5, <2>1, <2>2 DEF ChannelOk
<1>9. DaysOk'
  BY <1>1 DEF DaysOk
<1>10. GzipOk'
  <2>1. \A e \in Events : Newline # Whole(e)
    BY TokensDiffer
  <2>2. writer # "idle" /\ Write(FileOf(event), Newline)
    BY <1>1 DEF F
  <2>3. QED
    BY <1>1, <1>2, <2>1, <2>2, WriteGzip
<1>11. TipsOk'
  <2>1. SUFFICES ASSUME NEW f \in Files, NEW e \in Events,
                        plain'[f] # None, plain'[f] # <<>>, plain'[f][Len(plain'[f])] = Whole(e)
                 PROVE  stage'[e] \in {"failed", "lost"}
    BY DEF TipsOk, Whole
  <2>2. f # F
    BY <1>6, <2>1, TokensDiffer
  <2>3. plain'[f] = plain[f]
    BY <1>3, <2>2
  <2>4. stage[e] \in {"failed", "lost"}
    BY <2>1, <2>2, <2>3 DEF TipsOk, F
  <2>5. QED
    BY <1>2, <1>5, <2>4
<1>12. \A e \in Events : HasBody(e)' <=> HasBody(e)
  BY <1>1, <1>2, <1>5 DEF HasBody
<1>13. \A f \in Files, e \in Events :
         /\ Holds(plain[f], e) => Holds(plain'[f], e)
         /\ Readable(plain[f], e) => Readable(plain'[f], e)
  <2>1. writer # "idle" /\ Write(FileOf(event), Newline)
    BY <1>1 DEF F
  <2>2. QED
    BY <1>2, <2>1, WriteKeeps
<1>14. KeptOk'
  <2>1. SUFFICES ASSUME NEW e \in Events, HasBody(e)
                 PROVE  \/ Holds(plain'[FileOf(e)], e) \/ Holds(gz[FileOf(e)], e)
                        \/ e \in overtaken
    BY <1>1, <1>4, <1>12 DEF KeptOk, Holds, Content, Whole
  <2>2. QED
    BY <1>4, <1>13, <2>1 DEF KeptOk
<1>15. SpoiltOk'
  <2>1. Spoilt' \subseteq Spoilt
    <3>1. SUFFICES ASSUME NEW e \in Events, HasBody(e), e \notin overtaken,
                          ~ Readable(plain'[FileOf(e)], e), ~ Readable(gz[FileOf(e)], e)
                   PROVE  e \in Spoilt
      BY <1>1, <1>4, <1>12, SpoiltNext DEF Spoilt, FileOf
    <3>2. QED
      BY <1>4, <1>13, <3>1 DEF Spoilt
  <2>2. Dirty' \subseteq Dirty
    <3>1. SUFFICES ASSUME NEW f \in Files, plain'[f] # None, plain'[f] # <<>>,
                          plain'[f][Len(plain'[f])] # Newline
                   PROVE  f \in Dirty
      BY <1>1 DEF Dirty
    <3>2. f # F /\ plain'[f] = plain[f]
      BY <1>3, <1>6, <3>1
    <3>3. QED
      BY <3>1, <3>2 DEF Dirty, F
  <2>3. /\ Spoilt \in SUBSET Events /\ Spoilt' \in SUBSET Events
        /\ Dirty \in SUBSET Files /\ Dirty' \in SUBSET Files
    BY DEF Spoilt, Dirty
  <2>4. faults + crashes \in Nat /\ Cardinality(Spoilt) + Cardinality(Dirty) <= faults + crashes
    BY DEF SpoiltOk, TypeOK
  <2>5. Cardinality(Spoilt') + Cardinality(Dirty') <= faults + crashes
    BY <2>1, <2>2, <2>3, <2>4, CountStep
  <2>6. QED
    BY <1>1, <2>5 DEF SpoiltOk
<1>16. QED
  BY <1>7, <1>8, <1>9, <1>10, <1>11, <1>14, <1>15

\* An event is given up, perhaps in the middle, by a failed write or a stop: it counts
\* for what it leaves behind.
LEMMA GiveUpKeeps ==
  ASSUME IInv, \/ UNCHANGED plain
               \/ writer = "body" /\ Write(FileOf(event), Part(event)),
         UNCHANGED <<created, gz, overtaken>>, writer' = "idle",
         faults' + crashes' = faults + crashes + 1,
         \A e \in Events : stage'[e] = stage[e] \/
           (stage[e] \in {"relaying", "sent"} /\ stage'[e] \in {"failed", "lost"}),
         writer # "idle" => stage'[event] \in {"failed", "lost"}
  PROVE  /\ plain' \in [Files -> Seq(Tokens) \cup {None}]
         /\ \A f \in Files : plain'[f] = None <=> plain[f] = None
         /\ TipsOk' /\ KeptOk' /\ SpoiltOk'
<1> USE DEF IInv
<1> DEFINE F == FileOf(event)
<1>1. \A e \in Events : FileOf(e) \in Files /\ FileOf(e)' = FileOf(e)
  BY FileOfType DEF FileOf
<1>2. \A e \in Events : HasBody(e)' => HasBody(e)
  BY DEF HasBody
<1>3. /\ plain' \in [Files -> Seq(Tokens) \cup {None}]
      /\ \A f \in Files : plain'[f] = None <=> plain[f] = None
      /\ \A f \in Files : \/ plain'[f] = plain[f]
                          \/ /\ f = F /\ writer = "body" /\ plain'[f] # None
                             /\ plain'[f][Len(plain'[f])] = Part(event)
      /\ \A f \in Files, e \in Events :
           /\ Holds(plain[f], e) => Holds(plain'[f], e)
           /\ Readable(plain[f], e) /\ HasBody(e) => Readable(plain'[f], e)
  <2>1. CASE UNCHANGED plain
    BY <2>1 DEF TypeOK
  <2>2. CASE writer = "body" /\ Write(F, Part(event))
    <3>1. event \in Events /\ Part(event) \in Tokens /\ writer # "idle"
      BY <2>2, TokensDiffer DEF TypeOK
    <3>2. /\ plain' \in [Files -> Seq(Tokens) \cup {None}]
          /\ \A f \in Files : f # F => plain'[f] = plain[f]
          /\ \A f \in Files : plain'[f] = None <=> plain[f] = None
          /\ linked => plain[F] \in Seq(Tokens) /\ plain'[F] = Append(plain[F], Part(event))
          /\ ~ linked => plain' = plain /\ plain[F] = None
      BY <2>2, <3>1, WriteEffect
    <3>3. \A f \in Files, e \in Events :
            /\ Holds(plain[f], e) => Holds(plain'[f], e)
            /\ Readable(plain[f], e) /\ HasBody(e) => Readable(plain'[f], e)
      BY <2>2, <3>1, WriteKeeps
    <3>4. linked => plain'[F] # None /\ plain'[F][Len(plain'[F])] = Part(event)
      <4>1. SUFFICES ASSUME linked
                     PROVE  plain'[F] # None /\ plain'[F][Len(plain'[F])] = Part(event)
        OBVIOUS
      <4>2. plain[F] \in Seq(Tokens) /\ plain'[F] = Append(plain[F], Part(event))
        BY <3>2, <4>1
      <4> HIDE DEF F
      <4>3. QED
        BY <3>1, <4>2, AppendToken
    <3> HIDE DEF F
    <3>5. QED
      BY <2>2, <3>2, <3>3, <3>4
  <2>3. QED
    BY <2>1, <2>2
<1>4. writer # "idle" => event \in Events
  BY DEF TypeOK
<1>5. TipsOk'
  <2>1. SUFFICES ASSUME NEW f \in Files, NEW e \in Events,
                        plain'[f] # None, plain'[f] # <<>>, plain'[f][Len(plain'[f])] = Whole(e)
                 PROVE  stage'[e] \in {"failed", "lost"}
    BY DEF TipsOk, Whole
  <2>2. writer = "body" => Part(event) # Whole(e)
    BY <1>4, TokensDiffer
  <2>3. plain'[f] = plain[f]
    BY <1>3, <2>1, <2>2
  <2>4. stage[e] \in {"failed", "lost"} \/ (writer = "newline" /\ e = event)
    BY <2>1, <2>3 DEF TipsOk
  <2>5. QED
    BY <2>4
<1>6. KeptOk'
  <2>1. SUFFICES ASSUME NEW e \in Events, HasBody(e)
                 PROVE  \/ Holds(plain'[FileOf(e)], e) \/ Holds(gz[FileOf(e)], e)
                        \/ e \in overtaken
    BY <1>1, <1>2 DEF KeptOk, Holds, Content, Whole
  <2>2. QED
    BY <1>1, <1>3, <2>1 DEF KeptOk
<1>7. SpoiltOk'
  <2>1. Spoilt' \subseteq Spoilt
    <3>1. SUFFICES ASSUME NEW e \in Events, HasBody(e), e \notin overtaken,
                          ~ Readable(plain'[FileOf(e)], e), ~ Readable(gz[FileOf(e)], e)
                   PROVE  e \in Spoilt
      BY <1>1, <1>2, SpoiltNext DEF Spoilt, FileOf
    <3>2. QED
      BY <1>1, <1>3, <3>1 DEF Spoilt
  <2>2. Dirty' \subseteq Dirty \cup {F}
    <3>1. SUFFICES ASSUME NEW f \in Files, f # F, plain'[f] # None, plain'[f] # <<>>,
                          plain'[f][Len(plain'[f])] # Newline
                   PROVE  f \in Dirty
      BY DEF Dirty
    <3>2. plain'[f] = plain[f]
      BY <1>3, <3>1
    <3>3. QED
      BY <3>1, <3>2 DEF Dirty
  <2>3. Spoilt \in SUBSET Events /\ Dirty \in SUBSET Files
    BY DEF Spoilt, Dirty
  <2>4. faults + crashes \in Nat /\ Cardinality(Spoilt) + Cardinality(Dirty) <= faults + crashes
    BY DEF SpoiltOk, TypeOK
  <2>5. Spoilt' \in SUBSET Spoilt /\ Dirty' \in SUBSET (Dirty \cup {F})
    BY <2>1, <2>2
  <2> HIDE DEF F
  <2>6. Cardinality(Spoilt') + Cardinality(Dirty') <= faults + crashes + 1
    BY <2>3, <2>4, <2>5, CountOneMore
  <2>7. QED
    BY <2>6 DEF SpoiltOk
<1>8. QED
  BY <1>3, <1>5, <1>6, <1>7

LEMMA WriteFailsKeeps == ASSUME IInv, WriteFails PROVE IInv'
<1> USE DEF IInv
<1>1. /\ writer # "idle" /\ faults < MaxFaults /\ faults' = faults + 1 /\ crashes' = crashes
      /\ \/ UNCHANGED plain
         \/ writer = "body" /\ Write(FileOf(event), Part(event))
      /\ writer' = "idle" /\ event' = None /\ linked' = TRUE
      /\ stage' = [stage EXCEPT ![event] = "failed"]
      /\ UNCHANGED <<day, created, channel, gz, overtaken>>
      /\ UNCHANGED <<bot, current, todo, file, copy>>
  BY DEF WriteFails, Fault, Settle, botVars
<1>2. event \in Events /\ stage[event] = "sent"
  BY <1>1 DEF TypeOK, ChannelOk
<1>3. /\ stage' \in [Events -> {"new", "relaying", "sent", "written", "failed", "lost"}]
      /\ stage'[event] = "failed" /\ \A e \in Events : e # event => stage'[e] = stage[e]
  BY <1>1, <1>2 DEF TypeOK
<1>4. faults' + crashes' = faults + crashes + 1 /\ faults' \in 0..MaxFaults
  <2>1. faults \in Nat /\ crashes \in Nat /\ MaxFaults \in Nat
    BY CaptureAssumption DEF TypeOK
  <2>2. /\ faults \in Nat /\ faults < MaxFaults /\ faults' + crashes' = faults + crashes + 1
        /\ faults' = faults + 1
    BY <1>1, <2>1
  <2>3. QED
    BY <2>1, <2>2
<1>5. /\ plain' \in [Files -> Seq(Tokens) \cup {None}]
      /\ \A f \in Files : plain'[f] = None <=> plain[f] = None
      /\ TipsOk' /\ KeptOk' /\ SpoiltOk'
  BY <1>1, <1>2, <1>3, <1>4, GiveUpKeeps
<1>6. TypeOK'
  <2>1. bot \in {"read", "unlink"} => file \in Files /\ plain'[file] # None
    BY <1>5 DEF TypeOK
  <2>2. QED
    BY <1>1, <1>3, <1>4, <1>5, <2>1 DEF TypeOK
<1>7. ChannelOk'
  <2>1. \A i \in 1..Len(channel) : channel[i] \in Events /\ channel[i] # event
    BY ElementOfSeq DEF TypeOK, ChannelOk
  <2>2. \A i \in 1..Len(channel) : channel[i] # None
    BY <2>1, CaptureAssumption
  <2>3. QED
    BY <1>1, <1>3, <2>1, <2>2 DEF ChannelOk
<1>8. DaysOk'
  BY <1>1 DEF DaysOk
<1>9. GzipOk'
  <2>1. CASE UNCHANGED plain
    BY <1>1, <2>1 DEF GzipOk, Whole
  <2>2. CASE writer = "body" /\ Write(FileOf(event), Part(event))
    <3>1. Part(event) \in Tokens /\ \A e \in Events : Part(event) # Whole(e)
      BY <1>2, TokensDiffer
    <3>2. QED
      BY <1>1, <2>2, <3>1, WriteGzip
  <2>3. QED
    BY <1>1, <2>1, <2>2
<1>10. QED
  BY <1>5, <1>6, <1>7, <1>8, <1>9

LEMMA RestartKeeps == ASSUME IInv, Restart PROVE IInv'
<1> USE DEF IInv
<1>1. /\ crashes < MaxCrashes /\ crashes' = crashes + 1 /\ faults' = faults
      /\ \/ UNCHANGED plain
         \/ writer = "body" /\ Write(FileOf(event), Part(event))
      /\ channel' = <<>> /\ writer' = "idle" /\ event' = None /\ linked' = TRUE
      /\ bot' = "idle" /\ current' = day /\ todo' = {} /\ file' = None /\ copy' = <<>>
      /\ stage' = [e \in Events |->
                     IF stage[e] \in {"relaying", "sent"} THEN "lost" ELSE stage[e]]
      /\ UNCHANGED <<day, created, gz, overtaken>>
  BY DEF Restart
<1>2. /\ stage' \in [Events -> {"new", "relaying", "sent", "written", "failed", "lost"}]
      /\ \A e \in Events : stage'[e] = stage[e] \/
           (stage[e] \in {"relaying", "sent"} /\ stage'[e] \in {"failed", "lost"})
  BY <1>1 DEF TypeOK
<1>3. writer # "idle" => stage'[event] \in {"failed", "lost"}
  BY <1>1 DEF TypeOK, ChannelOk
<1>4. faults' + crashes' = faults + crashes + 1 /\ crashes' \in 0..MaxCrashes
  <2>1. faults \in Nat /\ crashes \in Nat /\ MaxCrashes \in Nat
    BY CaptureAssumption DEF TypeOK
  <2>2. /\ crashes \in Nat /\ crashes < MaxCrashes /\ faults' + crashes' = faults + crashes + 1
        /\ crashes' = crashes + 1
    BY <1>1, <2>1
  <2>3. QED
    BY <2>1, <2>2
<1>5. /\ plain' \in [Files -> Seq(Tokens) \cup {None}]
      /\ TipsOk' /\ KeptOk' /\ SpoiltOk'
  BY <1>1, <1>2, <1>3, <1>4, GiveUpKeeps
<1>6. <<>> \in Seq(Events) /\ Len(<<>>) = 0
  OBVIOUS
<1>7. TypeOK'
  BY <1>1, <1>2, <1>4, <1>5, <1>6 DEF TypeOK
<1>8. ChannelOk'
  BY <1>1, <1>6 DEF ChannelOk
<1>9. DaysOk'
  <2>1. day \in Int /\ current \in Int /\ \A f \in Files : f[2] \in Int
    BY DEF TypeOK, Days, Files
  <2>2. QED
    BY <1>1, <2>1 DEF DaysOk
<1>10. GzipOk'
  BY <1>1 DEF GzipOk
<1>11. QED
  BY <1>5, <1>7, <1>8, <1>9, <1>10

-----------------------------------------------------------------------------
(* The theorems *)

LEMMA InitInv == Init => IInv
<1> SUFFICES ASSUME Init PROVE IInv
  OBVIOUS
<1>1. <<>> \in Seq(Events) /\ Len(<<>>) = 0
  OBVIOUS
<1>2. 1 \in Days /\ 0 \in 0..MaxFaults /\ 0 \in 0..MaxCrashes
  BY CaptureAssumption DEF Days
<1>3. TypeOK
  BY <1>1, <1>2 DEF Init, TypeOK
<1>4. ChannelOk /\ DaysOk /\ GzipOk /\ TipsOk
  BY <1>1 DEF Init, ChannelOk, DaysOk, GzipOk, TipsOk
<1>5. KeptOk /\ Spoilt = {} /\ Dirty = {}
  BY DEF Init, KeptOk, Spoilt, Dirty, HasBody
<1>6. SpoiltOk
  BY <1>5, FS_EmptySet DEF Init, SpoiltOk
<1>7. QED
  BY <1>3, <1>4, <1>5, <1>6 DEF IInv

\* The invariant holds in every state.
LEMMA SpecInv == Spec => []IInv
<1>1. ASSUME IInv, [Next]_vars PROVE IInv'
  <2>1. ASSUME NEW e \in Events, Take(e) \/ Send(e) PROVE IInv'
    BY <1>1, <2>1, TakeKeeps, SendKeeps
  <2>2. CASE Writer
    BY <1>1, <2>2, OpenKeeps, WriteBodyKeeps, WriteNewlineKeeps, WriteFailsKeeps DEF Writer
  <2>3. CASE Bot
    BY <1>1, <2>3, BetweenFilesKeeps, GzipKeeps, GzipOutputKeeps, GzipUnlinkKeeps DEF Bot
  <2>4. CASE NextDay \/ UNCHANGED vars
    BY <1>1, <2>4, BetweenFilesKeeps
  <2>5. CASE Restart
    BY <1>1, <2>5, RestartKeeps
  <2>6. QED
    BY <1>1, <2>1, <2>2, <2>3, <2>4, <2>5 DEF Next
<1>2. QED
  BY InitInv, <1>1, PTL DEF Spec

\* The types of the capture files' state, for any instance; the writer holds a removed
\* file open only while it writes an event to it, and gzip's input stays until gzip
\* itself removes it.
THEOREM CaptureTypes == Spec => []TypeOK
<1>1. IInv => TypeOK
  BY DEF IInv
<1>2. QED
  BY SpecInv, <1>1, PTL

\* An event whose write succeeded stays in the file of its day or in the compressed
\* one, whatever fails or stops, unless it was written while gzip worked on that file.
THEOREM WrittenIsKept == Spec => []Kept
<1>1. IInv => Kept
  BY DEF IInv, KeptOk, HasBody, Kept
<1>2. QED
  BY SpecInv, <1>1, PTL

\* No more events than there were failures and restarts are spoilt by what a write that
\* was given up left on their line.
THEOREM FaultsSpoilOne == Spec => []OneSpoiltPerFault
<1>1. ASSUME IInv PROVE OneSpoiltPerFault
  <2> DEFINE S == {e \in Events : /\ stage[e] = "written" /\ e \notin overtaken
                                  /\ ~ Readable(plain[FileOf(e)], e)
                                  /\ ~ Readable(gz[FileOf(e)], e)}
  <2>1. S \in SUBSET Spoilt
    BY DEF Spoilt, HasBody
  <2>2. Spoilt \in SUBSET Events /\ Dirty \in SUBSET Files /\ {} \in SUBSET Dirty
    BY DEF Spoilt, Dirty
  <2>3. faults + crashes \in Nat /\ Cardinality(Spoilt) + Cardinality(Dirty) <= faults + crashes
    BY <1>1 DEF IInv, SpoiltOk, TypeOK
  <2> HIDE DEF S
  <2>4. Cardinality(S) + Cardinality({}) <= faults + crashes
    BY <2>1, <2>2, <2>3, CountStep
  <2>5. IsFiniteSet(S)
    BY <2>1, <2>2, FilesFinite, FS_Subset
  <2>6. Cardinality({}) = 0 /\ Cardinality(S) \in Nat
    BY <2>5, FS_EmptySet, FS_CardinalityType
  <2>7. Cardinality(S) <= faults + crashes
    BY <2>4, <2>6
  <2>8. QED
    BY <2>7 DEF OneSpoiltPerFault, S
<1>2. QED
  BY SpecInv, <1>1, PTL
=============================================================================
