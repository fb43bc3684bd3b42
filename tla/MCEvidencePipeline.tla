------------------------ MODULE MCEvidencePipeline -------------------------
(***************************************************************************)
(* A small instance of the evidence pipeline.                               *)
(***************************************************************************)
EXTENDS EvidencePipeline, TLC

\* Snapshots.  Two of them carry no time stamp of their own and no endpoint id, so the
\* worker's host name goes into the incident id.
Blank == [state |-> FALSE, enabled |-> FALSE, winhttpDirect |-> FALSE, port |-> FALSE,
          owner |-> FALSE, found |-> FALSE, name |-> "none", writer |-> FALSE,
          health |-> FALSE, status |-> "none", direct |-> "none", proxy |-> "none",
          external |-> "none", change |-> FALSE, reverter |-> "none", suspected |-> FALSE,
          bad |-> FALSE, host |-> "worker", ts |-> ""]
Unknown == [Blank EXCEPT !.state = TRUE, !.enabled = TRUE]
UnknownPort == [Unknown EXCEPT !.port = TRUE]
Mismatched == [Unknown EXCEPT !.winhttpDirect = TRUE, !.owner = TRUE, !.found = TRUE,
                              !.ts = "t1"]
Malformed == [Unknown EXCEPT !.bad = TRUE]

Ingest(role, endpoint, source, timestamp, raw) ==
  [route |-> "ingest", role |-> role, endpoint |-> endpoint, source |-> source,
   timestamp |-> timestamp, raw |-> raw]
Review(role) == [route |-> "review", role |-> role, incident |-> make_incident_id(Unknown),
                 action |-> "ACCEPTED"]
Load(a, b, c) == ("r1" :> a) @@ ("r2" :> b) @@ ("r3" :> c)

First == Ingest("operator", "e1", "s1", "t1", Unknown)

MCLoads == {
  \* one event sent twice, and the review of its incident
  Load(First, First, Review("risk_reviewer")),
  \* one source id with two contents, and a snapshot the pipeline cannot read
  Load(First, Ingest("admin", "e1", "s1", "t2", Mismatched),
              Ingest("operator", "e1", "s3", "t3", Malformed)),
  \* a content without a source id sent twice, and one that gets the same incident id
  Load(First, Ingest("operator", "e2", NoSource, "t1", UnknownPort),
              Ingest("operator", "e2", NoSource, "t2", UnknownPort)),
  \* a snapshot without an incident, and two requests whose role is refused
  Load(Ingest("operator", "e1", "s4", "t4", Blank), Review("operator"),
       Ingest("demo_viewer", "e1", "s1", "t1", Unknown)) }
=============================================================================
