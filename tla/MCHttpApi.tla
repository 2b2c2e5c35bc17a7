------------------------------ MODULE MCHttpApi ------------------------------
(***************************************************************************)
(* Requests for model-checking HttpApi: those of MCMetricStore and some    *)
(* more, each in a plain encoding, and some in others; and malformed ones. *)
(***************************************************************************)
EXTENDS HttpApi, MCMetricStore

-----------------------------------------------------------------------------
(* Families.                                                               *)

\* A side of a histogram.
Side(spans, deltas, counts) ==
  [spans  |-> [i \in DOMAIN spans |-> [offset |-> spans[i][1], length |-> spans[i][2]]],
   deltas |-> deltas, counts |-> counts]

NoSide == Side(<<>>, <<>>, <<>>)

Integer(zero, positive, negative, observed) ==
  [count |-> Len(observed), countFloat |-> 0, zero |-> zero, zeroFloat |-> 0,
   threshold |-> 1, positive |-> positive, negative |-> negative, buckets |-> <<>>,
   observed |-> observed]

Float(zero, positive, negative, observed) ==
  [Integer(0, positive, negative, observed) EXCEPT
    !.count = 0, !.countFloat = Len(observed), !.zeroFloat = zero]

\* Spans with gaps, none, and one without length; empty buckets; each bound once
\* from either side; observations in the zero bucket alone.
NativeHistograms ==
  <<Integer(0, Side(<<<<0, 2>>, <<1, 1>>>>, <<2, -1, 0>>, <<>>), NoSide, <<9, 16, 17, 128>>),
    Integer(1, Side(<<<<-3, 3>>>>, <<1, -1, 2>>, <<>>),
            Side(<<<<-3, 1>>, <<0, 2>>>>, <<2, -2, 1>>, <<>>),
            <<0, 2, 5, 8, -2, -2, -5>>),
    Integer(2, NoSide, Side(<<<<2, 0>>, <<0, 2>>>>, <<1, 1>>, <<>>), <<-1, 1, -33, -65, -128>>),
    Float(1, Side(<<<<1, 2>>>>, <<>>, <<2, 1>>), Side(<<<<0, 1>>, <<2, 1>>>>, <<>>, <<1, 2>>),
          <<0, 17, 32, 64, -16, -100, -128>>)>>

Classical ==
  [Integer(0, NoSide, NoSide, <<>>) EXCEPT
    !.buckets = <<[bound |-> 1, count |-> 2, countFloat |-> 0],
                  [bound |-> 2, count |-> 0, countFloat |-> 3]>>]

Numbered(values) ==
  [i \in DOMAIN values |->
    [labels |-> "x" :> <<ToString(i)>>, value |-> values[i], stamped |-> FALSE]]

Histogram == Fam("histogram", Numbered(Append(NativeHistograms, Classical)))

Summary ==
  Fam("summary", Numbered(<<[count |-> 2, quantiles |-> <<[quantile |-> 50, value |-> 3],
                                                          [quantile |-> 99, value |-> 4]>>]>>))

-----------------------------------------------------------------------------
(* What clients mean.                                                      *)

PutToG1  == Put(G1, "m" :> Plain)
PostToG2 == Post(G2, "m" :> Plain)
PostToG3 == Post(G3, "m" :> Counter)

MCMeant ==
  MCRequests \cup {Put(G3, "h" :> Histogram @@ "s" :> Summary)}

-----------------------------------------------------------------------------
(* Encodings.                                                              *)

MCRawURLEncoding == "" :> <<"">> @@ "YQ" :> <<"a">> @@ "aQ" :> <<"i">>
MCEscapedNames   == "U__instanc_65_" :> "instance"
MCReservedTexts  == {"__instance"}

Text(text) ==
  [text |-> text, pieces |-> <<text>>, unpadded |-> text, trimmed |-> text]
Padded(text, unpadded)  == [Text(text) EXCEPT !.unpadded = unpadded]
Base64(text, trimmed)   == [Text(text) EXCEPT !.trimmed = trimmed]

InstanceBase64 == Base64("instance@base64", "instance")

Messages(families) ==
  LET names == SetToSeq(DOMAIN families)
  IN  [i \in DOMAIN names |-> [name |-> names[i], family |-> families[names[i]]]]

\* A request in the plain encoding; an empty label needs base64.
Encoded(r) ==
  [method          |-> IF r.families = NoFamilies THEN "DELETE"
                       ELSE IF r.replace THEN "PUT" ELSE "POST",
   jobBase64       |-> FALSE,
   job             |-> Text("a"),
   labels          |-> CASE r.labels = G1 -> <<>>
                         [] r.labels = G2 -> <<InstanceBase64, Padded("=", "")>>
                         [] r.labels = G3 -> <<Text("instance"), Text("i")>>,
   contentEncoding |-> "identity",
   coding          |-> "identity",
   format          |-> "protobuf",
   messages        |-> IF r.families = NoFamilies THEN <<>> ELSE Messages(r.families),
   broken          |-> FALSE,
   meant           |-> r]

Twice(q) == [q EXCEPT !.messages = <<[name |-> "m", family |-> Stale]>> \o @]

WithEmptyFamily(q) ==
  [q EXCEPT !.messages = @ \o <<[name |-> "e", family |-> Fam("gauge", <<>>)]>>]

Malformed(q) == [q EXCEPT !.meant = NoMeaning]

Unusual ==
  {[Encoded(PutToG1) EXCEPT !.jobBase64 = TRUE, !.job = Padded("YQ==", "YQ")],
   [Encoded(PutToG1) EXCEPT !.labels = <<Text("job"), Text("i")>>],
   [WithEmptyFamily(Encoded(PutToG1)) EXCEPT
     !.format = "text", !.contentEncoding = "gzip", !.coding = "gzip"],
   Twice(Encoded(PutToG1)),
   [Encoded(PostToG2) EXCEPT
     !.labels = <<Base64("U__instanc_65_@base64", "U__instanc_65_"), Padded("==", "")>>],
   [Encoded(PostToG3) EXCEPT !.labels = <<Text("U__instanc_65_"), Text("i")>>],
   [Encoded(PostToG3) EXCEPT
     !.labels = <<Text("instance"), Text("a"), InstanceBase64, Text("aQ")>>],
   [Encoded(Delete(G3)) EXCEPT !.coding = "snappy", !.broken = TRUE]}

Wrong ==
  {[Encoded(Delete(G1)) EXCEPT !.jobBase64 = TRUE, !.job = Text("!")],
   [Encoded(Delete(G1)) EXCEPT !.jobBase64 = TRUE, !.job = Padded("=", "")],
   [Encoded(Delete(G1)) EXCEPT !.contentEncoding = "gzip"],
   [Encoded(PutToG1) EXCEPT !.contentEncoding = "snappy"],
   [Encoded(PutToG1) EXCEPT !.coding = "gzip"],
   [Encoded(PutToG1) EXCEPT !.broken = TRUE],
   [Twice(Encoded(PutToG1)) EXCEPT !.format = "text"],
   [Encoded(PostToG3) EXCEPT !.labels = <<Text("instance")>>],
   [Encoded(PostToG3) EXCEPT !.labels = <<Text("__instance"), Text("i")>>],
   [Encoded(PostToG3) EXCEPT !.labels = <<Base64("@base64", ""), Text("aQ")>>],
   [Encoded(Delete(G3)) EXCEPT !.labels = <<InstanceBase64, Text("!")>>]}

MCHttpRequests ==
  {Encoded(r) : r \in MCMeant} \cup Unusual \cup {Malformed(q) : q \in Wrong}

=============================================================================
