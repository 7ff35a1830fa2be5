------------------------------ MODULE MediaConfig ------------------------------
(***************************************************************************)
(* The video configuration: video::loadConfig() (video/stream_config.cpp), *)
(* which reads the topic rules and the other sources one by one, and the   *)
(* stream specs resolved from it (video/stream_spec.cpp).  Audio has other *)
(* sources only, loaded and resolved in the same way; its switches differ  *)
(* in that "auto" inherits too.                                            *)
(*                                                                         *)
(* Publish options are the codec, for which simulcast is the same, and the *)
(* pair of bitrate and frame rate, which LiveKit takes as one encoding or  *)
(* not at all.  An entry says "" or -1 to inherit, "auto" or 0 for what    *)
(* the SDK does by default; NoOption is nullopt.                           *)
(* Definitions named Faulty... are not part of the model: each is a        *)
(* plausible mistake in the definition after it.                           *)
(***************************************************************************)
EXTENDS ResourceList

CONSTANTS Width(_),  \* the characters of a segment
          Trim(_),   \* what trim() makes of an id
          NoOption,  \* nullopt
          Blank,     \* the empty string
          Codecs,    \* codecs by name
          Ids        \* the ids of entries

Encodings == [bitrate : Nat, framerate : Nat]

ASSUME MediaAssumption ==
  /\ \A segment \in Segments : Width(segment) \in Nat \ {0}
  /\ NoOption \notin Codecs /\ NoOption \notin Encodings

VARIABLES
  defaults,    \* params.video.publish
  topicIds,    \* video_topic_ids, each with its entry
  otherIds,    \* video_other_ids, each with its entry
  read,        \* how many ids have been read
  rules,       \* config.ros_topic_rules
  sources,     \* config.other_sources: by name
  loadStep,    \* "topics", "others", "loaded", "failed"
  spec         \* the last resolved spec

mediaVars == <<defaults, topicIds, otherIds, read, rules, sources, loadStep, spec>>

(* What the validation of the parameters lets through.                      *)
DefaultPublish == [codec : Codecs \union {"auto"}, bitrate : Nat, framerate : Nat]

OwnPublish == [codec : Codecs \union {"auto", Blank}, bitrate : Nat \union {-1}, framerate : Nat \union {-1}]

TopicParams == [id : Ids, found : BOOLEAN, valid : BOOLEAN, pattern : Patterns, publish : OwnPublish]

OtherParams == [id : Ids, found : BOOLEAN, valid : BOOLEAN, publish : OwnPublish]

NoSpec == [kind |-> "none"]

LoadInit(publish, topics, others) ==
  /\ defaults = publish
  /\ topicIds = topics /\ otherIds = others
  /\ read = 0 /\ rules = <<>> /\ sources = {}
  /\ loadStep = "topics"
  /\ spec = NoSpec

-----------------------------------------------------------------------------
(* setEncoding()                                                            *)
Encoding(bitrate, framerate) ==
  IF bitrate > 0 \/ framerate > 0 THEN [bitrate |-> bitrate, framerate |-> framerate] ELSE NoOption

ParseCodec(c) == IF c = "auto" THEN NoOption ELSE c

(* parsePublishOptions(), of the parameters and of an entry over the        *)
(* default options: each field is inherited or replaced by itself.          *)
DefaultOptions(publish) ==
  [codec |-> ParseCodec(publish.codec),
   encoding |-> Encoding(publish.bitrate, publish.framerate)]

ParsePublishOptions(entry, old) ==
  LET Inherited(field) == IF old.encoding = NoOption THEN 0 ELSE old.encoding[field]
  IN  [codec |-> IF entry.codec = Blank THEN old.codec ELSE ParseCodec(entry.codec),
       encoding |-> Encoding(
         IF entry.bitrate >= 0 THEN entry.bitrate ELSE Inherited("bitrate"),
         IF entry.framerate >= 0 THEN entry.framerate ELSE Inherited("framerate"))]

(* What loadConfig() makes of an entry.                                     *)
RuleOf(publish, t) ==
  [id |-> t.id, pattern |-> t.pattern,
   options |-> ParsePublishOptions(t.publish, DefaultOptions(publish))]

SourceOf(publish, o) ==
  [name |-> Trim(o.id), entry |-> o.id,
   options |-> ParsePublishOptions(o.publish, DefaultOptions(publish))]

-----------------------------------------------------------------------------
Fails == loadStep' = "failed" /\ UNCHANGED <<read, rules, sources>>

(* requireUniqueEntry(): the id is new and has parameters.                  *)
Unique(ids, k) == ids[k].found /\ \A j \in 1 .. k - 1 : ids[j].id # ids[k].id

(* One topic rule: a pattern that normalizes and a transform that parses.   *)
LoadTopicRule ==
  /\ loadStep = "topics" /\ read < Len(topicIds)
  /\ LET t == topicIds[read + 1] IN
       IF ~Unique(topicIds, read + 1) \/ ~t.valid THEN Fails
       ELSE /\ rules' = Append(rules, RuleOf(defaults, t))
            /\ read' = read + 1
            /\ UNCHANGED <<sources, loadStep>>
  /\ UNCHANGED <<defaults, topicIds, otherIds, spec>>

TopicsLoaded ==
  /\ loadStep = "topics" /\ read = Len(topicIds)
  /\ loadStep' = "others" /\ read' = 0
  /\ UNCHANGED <<defaults, topicIds, otherIds, rules, sources, spec>>

(* One other source: also its trimmed id is a name, and a new one.          *)
LoadOtherSource ==
  /\ loadStep = "others" /\ read < Len(otherIds)
  /\ LET o == otherIds[read + 1]
         name == Trim(o.id)
     IN  IF \/ ~Unique(otherIds, read + 1) \/ ~o.valid \/ name = Blank
            \/ \E s \in sources : s.name = name
           THEN Fails
           ELSE /\ sources' = sources \union {SourceOf(defaults, o)}
                /\ read' = read + 1
                /\ UNCHANGED <<rules, loadStep>>
  /\ UNCHANGED <<defaults, topicIds, otherIds, spec>>

(* Last, the built-in rule for every topic.                                 *)
Builtin(publish) ==
  [id |-> "default_ros", pattern |-> [name |-> <<>>, subtree |-> TRUE],
   options |-> DefaultOptions(publish)]

FaultyAppendBuiltin ==
  /\ loadStep = "others" /\ read = Len(otherIds)
  /\ rules' = <<Builtin(defaults)>> \o rules
  /\ loadStep' = "loaded"
  /\ UNCHANGED <<defaults, topicIds, otherIds, read, sources, spec>>

AppendBuiltin ==
  /\ loadStep = "others" /\ read = Len(otherIds)
  /\ rules' = Append(rules, Builtin(defaults))
  /\ loadStep' = "loaded"
  /\ UNCHANGED <<defaults, topicIds, otherIds, read, sources, spec>>

-----------------------------------------------------------------------------
(* RosResourcePattern::specificity(): the characters of the canonical form. *)
Specificity(pattern) ==
  LET chars[n \in 0 .. Len(pattern.name)] ==
        IF n = 0 THEN 0 ELSE chars[n - 1] + 1 + Width(pattern.name[n])
  IN  chars[Len(pattern.name)] + (IF pattern.subtree THEN 2 ELSE 0)

(* findBestRosResourcePatternMatch(), over the first rules.                 *)
SelectRosTopicRule(topic) ==
  LET best[n \in 0 .. Len(rules)] ==
        IF n = 0 THEN 0
        ELSE IF /\ Matches(rules[n].pattern, topic)
                /\ \/ best[n - 1] = 0
                   \/ Specificity(rules[best[n - 1]].pattern) < Specificity(rules[n].pattern)
             THEN n ELSE best[n - 1]
  IN  best[Len(rules)]

(* resolveRosTopicSpec() and resolveOtherSourceSpec().                      *)
ResolveRosTopicSpec(topic) ==
  /\ loadStep = "loaded"
  /\ SelectRosTopicRule(topic) # 0
  /\ LET r == rules[SelectRosTopicRule(topic)] IN
       spec' = [kind |-> "topic", name |-> topic, rule |-> r.id, options |-> r.options]
  /\ UNCHANGED <<defaults, topicIds, otherIds, read, rules, sources, loadStep>>

ResolveOtherSourceSpec(id) ==
  /\ loadStep = "loaded"
  /\ \E s \in sources :
       /\ s.name = Trim(id)
       /\ spec' = [kind |-> "other", name |-> s.name, rule |-> s.entry, options |-> s.options]
  /\ UNCHANGED <<defaults, topicIds, otherIds, read, rules, sources, loadStep>>

LoadNext == LoadTopicRule \/ TopicsLoaded \/ LoadOtherSource \/ AppendBuiltin

MediaNext ==
  \/ LoadNext
  \/ \E topic \in ResourceNames : ResolveRosTopicSpec(topic)
  \/ \E id \in Ids : ResolveOtherSourceSpec(id)

MediaSpec ==
  /\ \E publish \in DefaultPublish, topics \in Seq(TopicParams), others \in Seq(OtherParams) :
       LoadInit(publish, topics, others)
  /\ [][MediaNext]_mediaVars

-----------------------------------------------------------------------------
(* What an entry, or the defaults, say of a field; 0 and "auto" are the     *)
(* SDK's default.                                                           *)
Says(publish, entry, field) ==
  IF entry[field] = (IF field = "codec" THEN Blank ELSE -1) THEN publish[field] ELSE entry[field]

Has(options, field) ==
  CASE field = "codec" -> IF options.codec = NoOption THEN "auto" ELSE options.codec
    [] OTHER -> IF options.encoding = NoOption THEN 0 ELSE options.encoding[field]

Fields == {"codec", "bitrate", "framerate"}

(* docs/configuration.md: a topic that an entry matches is never left to    *)
(* the built-in rule, although that may be as specific as the entry; the    *)
(* entry chosen is the longest, the first of those; every source has one    *)
(* entry; and each field of the options is the entry's own, also 0 and      *)
(* "auto", or the global default, whatever the other fields are.            *)
MediaConfigured ==
  /\ spec.kind = "topic" =>
       \/ /\ spec.rule = "default_ros"
          /\ \A k \in DOMAIN topicIds : ~Matches(topicIds[k].pattern, spec.name)
          /\ \A f \in Fields : Has(spec.options, f) = defaults[f]
       \/ \E k \in DOMAIN topicIds :
            /\ topicIds[k].id = spec.rule /\ Matches(topicIds[k].pattern, spec.name)
            /\ \A j \in DOMAIN topicIds : Matches(topicIds[j].pattern, spec.name) =>
                 \/ Specificity(topicIds[j].pattern) < Specificity(topicIds[k].pattern)
                 \/ Specificity(topicIds[j].pattern) = Specificity(topicIds[k].pattern) /\ k <= j
            /\ \A f \in Fields : Has(spec.options, f) = Says(defaults, topicIds[k].publish, f)
  /\ spec.kind = "other" =>
       \E k \in DOMAIN otherIds :
         /\ Trim(otherIds[k].id) = spec.name
         /\ \A j \in DOMAIN otherIds : Trim(otherIds[j].id) = spec.name => j = k
         /\ \A f \in Fields : Has(spec.options, f) = Says(defaults, otherIds[k].publish, f)

(* The rules and the sources are those of the entries read so far.          *)
MediaTypeOK ==
  /\ defaults \in DefaultPublish
  /\ topicIds \in Seq(TopicParams) /\ otherIds \in Seq(OtherParams)
  /\ loadStep \in {"topics", "others", "loaded", "failed"}
  /\ read \in Nat
  /\ loadStep = "topics" => read <= Len(topicIds)
  /\ loadStep \in {"others", "loaded"} => read <= Len(otherIds)

RulesSoFar ==
  /\ loadStep = "topics" => rules = [k \in 1 .. read |-> RuleOf(defaults, topicIds[k])]
  /\ loadStep = "others" => rules = [k \in 1 .. Len(topicIds) |-> RuleOf(defaults, topicIds[k])]
  /\ loadStep = "loaded" =>
       rules = [k \in 1 .. Len(topicIds) + 1 |->
                  IF k = Len(topicIds) + 1 THEN Builtin(defaults) ELSE RuleOf(defaults, topicIds[k])]

SourcesSoFar ==
  /\ loadStep = "topics" => sources = {}
  /\ loadStep \in {"others", "loaded"} =>
       /\ sources = {SourceOf(defaults, otherIds[k]) : k \in 1 .. read}
       /\ \A j, k \in 1 .. read : Trim(otherIds[j].id) = Trim(otherIds[k].id) => j = k
  /\ loadStep = "loaded" => read = Len(otherIds)

MediaInv ==
  /\ MediaTypeOK /\ RulesSoFar /\ SourcesSoFar
  /\ spec.kind # "none" => loadStep = "loaded"
  /\ MediaConfigured
=============================================================================
