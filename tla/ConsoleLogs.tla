---------------------------- MODULE ConsoleLogs ----------------------------
(***************************************************************************)
(* What a container prints, on its way from Docker into the table of       *)
(* console logs: Docker's stream of frames comes in chunks, which are cut  *)
(* into lines, and of each line the Control Tower finds out when it was    *)
(* written and how grave it is.                                            *)
(*                                                                         *)
(* A line is [time, text]: when Docker says it was written, 0 if it says   *)
(* nothing.  A text is [is, time, says]: "blank", "plain", wrapped as      *)
(* "json" or as "cri" with a time of its own (0 if it has none), and the   *)
(* levels that it names.  A frame is a sequence of lines.  A chunk is      *)
(* [rest, frames, cut]: what is left of a frame that the last chunk broke  *)
(* off, without the eight bytes that are read as a header, then whole      *)
(* frames, then the beginning of one, each <<>> if there is none.  No      *)
(* chunk ends within a header.                                             *)
(***************************************************************************)
EXTENDS Naturals, Sequences, SequencesExt

Levels == <<"ERROR", "WARN", "DEBUG", "INFO">>
Now == 99    \* when the line is read

\* A mutant of parseLogLevel: the first level that is looked for is the last
\* that is found.
parseLogLevelLast(says) ==
    LET found == SelectSeq(Levels, LAMBDA l : l \in says)
    IN IF found = <<>> THEN "INFO" ELSE Last(found)

parseLogLevel(says) ==
    LET found == SelectSeq(Levels, LAMBDA l : l \in says)
    IN IF found = <<>> THEN "INFO" ELSE Head(found)

\* What is wrapped is taken out; the wrapping may have a time or not.
parseCRILogLine(text) ==
    [timestamp |-> IF text.is \in {"json", "cri"} THEN text.time ELSE 0,
     message |-> [text EXCEPT !.is = IF @ = "blank" THEN "blank" ELSE "plain"]]

\* messages: [log, time, instance]; valid: the instances there are.  A log of no
\* instance is left out, and one that cannot be stored keeps no other from it.
processRawLogs(messages, valid) ==
    LET kept == SelectSeq(messages, LAMBDA m : m.instance \in valid \ {""})
        entry(m, parsed) ==
            [instance |-> m.instance, level |-> parseLogLevel(parsed.message.says),
             timestamp |-> IF parsed.timestamp # 0 THEN parsed.timestamp ELSE m.time]
    IN [k \in DOMAIN kept |-> entry(kept[k], parseCRILogLine(kept[k].log))]

\* A line begins with the time, if Docker has put it there; if not, with the time
\* of its own that a text may begin with, which is then taken for Docker's.
parseDockerTimestamp(line) ==
    IF line.time # 0 THEN [timestamp |-> line.time, message |-> line.text]
    ELSE IF line.text.is = "cri"
    THEN [timestamp |-> line.text.time, message |-> [line.text EXCEPT !.is = "plain"]]
    ELSE [timestamp |-> Now, message |-> line.text]

processLine(line, instance, valid) ==
    LET parsed == parseDockerTimestamp(line)
    IN IF line.time = 0 /\ line.text.is = "blank" THEN <<>>
       ELSE processRawLogs(<<[log |-> parsed.message, time |-> parsed.timestamp, instance |-> instance]>>, valid)

\* Lines that are not told apart, the last of them broken off: what is wrapped as
\* JSON has no end then, and several lines are wrapped as nothing.
Joined(lines) ==
    [time |-> lines[1].time,
     text |-> [is |-> IF Len(lines) = 1 /\ lines[1].text.is # "json" THEN lines[1].text.is ELSE "plain",
               time |-> lines[1].text.time, says |-> UNION {lines[k].text.says : k \in DOMAIN lines}]]

\* A frame is cut into lines, an empty one left out.  One that is broken off is not
\* cut; and its rest, in the next chunk, has no header: what stands in its place
\* is read as the size of a frame that is not there, so that all that follows in
\* the chunk is one line.
processLogChunk(chunk, instance, valid) ==
    LET line(l) == processLine(l, instance, valid)
        frames == FlattenSeq(chunk.frames)
        joined(lines) == IF lines = <<>> THEN <<>> ELSE line(Joined(lines))
        untimed(lines) == [lines EXCEPT ![1].time = 0, ![1].text.is = "plain"]
    IN IF chunk.rest # <<>> THEN joined(untimed(chunk.rest \o frames \o chunk.cut))
       ELSE FlattenSeq([k \in DOMAIN frames |-> line(frames[k])]) \o joined(chunk.cut)

\* The streams of an instance are destroyed with it: what a container prints after
\* that goes nowhere.
Collected(chunks, stopped, instance, valid) ==
    FlattenSeq([k \in 1 .. (IF stopped < Len(chunks) THEN stopped ELSE Len(chunks)) |->
                    processLogChunk(chunks[k], instance, valid)])

-----------------------------------------------------------------------------
(* Properties.                                                             *)

Graver(l, k) == SelectInSeq(Levels, LAMBDA x : x = l) < SelectInSeq(Levels, LAMBDA x : x = k)

\* As long as no chunk breaks off a frame, each line that is not empty is stored
\* once, in its order, as grave as the gravest level it names; with the time it
\* has from Docker or in its own text.  Wherever a frame is broken off, no line
\* makes two logs, and there is a log at least as grave as any line says.
LinesStored(chunks) ==
    LET stored == Collected(chunks, Len(chunks), "i", {"i"})
        whole == \A k \in DOMAIN chunks : chunks[k].rest = <<>> /\ chunks[k].cut = <<>>
        lines == FlattenSeq([k \in DOMAIN chunks |->
                    chunks[k].rest \o FlattenSeq(chunks[k].frames) \o chunks[k].cut])
        full == SelectSeq(lines, LAMBDA l : l.time # 0 \/ l.text.is # "blank")
        times(l) == {l.time, l.text.time} \ {0}
    IN /\ Len(stored) <= Len(lines)
       /\ \A k \in DOMAIN full : \E j \in DOMAIN stored :
            \A l \in full[k].text.says : ~Graver(l, stored[j].level)
       /\ whole =>
            /\ Len(stored) = Len(full)
            /\ \A k \in DOMAIN full :
                /\ stored[k].timestamp \in times(full[k]) \/ (times(full[k]) = {} /\ stored[k].timestamp = Now)
                /\ \A l \in full[k].text.says : ~Graver(l, stored[k].level)
                /\ full[k].text.says # {} => stored[k].level \in full[k].text.says

=============================================================================
