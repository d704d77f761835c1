---------------------------- MODULE MCPolicyCycle ----------------------------
EXTENDS PolicyCycle

\* Both sides of each threshold, and of the common resolutions.
MCHeight == {576, 1080, 1599, 1600}

MCFilms == [type : {"video"}, codec : Codec, height : MCHeight,
            tag : {"dvh1", "other"}, dovi : {"full", "none"}, transfer : Transfer,
            mastering : {"full", "zero", "none"}, light : {"full", "none"}]

Sound == [type |-> "audio", codec |-> "vc1", height |-> 0, tag |-> "other", dovi |-> "none",
          transfer |-> "bt709", mastering |-> "none", light |-> "none"]
Cover == [Sound EXCEPT !.type = "video", !.height = 576]

\* A film with its sound first, one with a cover image after it; sound alone.
MCRelease == {<<Sound, f>> : f \in MCFilms} \cup {<<f, Cover>> : f \in MCFilms} \cup {<<Sound>>}
=============================================================================
