\* All command lines of up to five words, with two words that are no options.
CONSTANTS
  Text = {"a", "b"}
  Rules <- req_opts
  MaxWords = 5
SPECIFICATION Spec
INVARIANTS TypeOK WorkbenchArgs RulesAsDocumented OneGoesOn
PROPERTIES Settles
