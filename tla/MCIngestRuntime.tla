--------------------------- MODULE MCIngestRuntime ---------------------------
(* Two keys, one column the file may lack and one no property maps. The files *)
(* are a good one, one without the column, one with lines to set aside, one   *)
(* with no others and one that repeats a key. Two invocations are enough for  *)
(* a rerun after a crash, a race and a sequence that overtakes a load.        *)
EXTENDS IngestRuntime, TLC

CONSTANTS k1, k2, append, merge, replace, secret

Line(key) == [key |-> key, fits |-> TRUE]
Misfit(key) == [key |-> key, fits |-> FALSE]

Lines(lines) == [columns |-> {"mapped"}, keyed |-> TRUE, extra |-> FALSE, lines |-> lines]

MCFiles ==
    [good |-> Lines(<<Line(k1), Line(k2)>>),
     narrow |-> [Lines(<<Line(k1)>>) EXCEPT !.columns = {}],
     mixed |-> Lines(<<Line(k1), Misfit(k2), Line(NullKey)>>),
     bad |-> Lines(<<Misfit(k1)>>),
     twice |-> Lines(<<Line(k1), Line(k1)>>)]

MCEntries ==
    append :> [mode |-> "append", withheld |-> FALSE]
    @@ merge :> [mode |-> "merge", withheld |-> FALSE]
    @@ replace :> [mode |-> "replace", withheld |-> FALSE]
    @@ secret :> [mode |-> "append", withheld |-> TRUE]

Load(entry, file, reject) ==
    [order |-> <<entry>>, file |-> entry :> file, later |-> entry :> file,
     sequence |-> FALSE, reject |-> reject, rehearsal |-> FALSE]

Sequence(order, file) ==
    [order |-> order, file |-> file, later |-> file,
     sequence |-> TRUE, reject |-> FALSE, rehearsal |-> FALSE]

\* The file is corrected under its path between the rehearsal and the run.
Corrected(job, file) == [job EXCEPT !.later[job.order[1]] = file]

MCJobs ==
    {Sequence(<<append, merge>>, append :> "good" @@ merge :> "narrow"),
     Sequence(<<merge, replace>>, merge :> "good" @@ replace :> "twice"),
     Load(merge, "narrow", FALSE),
     Load(replace, "mixed", TRUE),
     Load(replace, "bad", TRUE),
     Corrected(Load(replace, "bad", TRUE), "mixed"),
     Load(secret, "good", FALSE)}

Symmetry == Permutations(Invocations)

MCContents == {[c \in Columns |-> "outside"]}
=============================================================================
