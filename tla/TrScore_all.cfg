SPECIFICATION MCSpec
CONSTANTS
  Maps <- MCMaps
  Confs <- MCConfs
  Rating <- MCRating
  Influence <- MCInfluence
  Scale <- MCScale
  SkillMaps <- MCSkillMaps
  Cst <- MCCst
  Seen <- MCSeen
  PatternUnit = 6
  ReadMaps <- MCReadMaps
  Interest <- MCInterest
INVARIANTS CountsMatch TargetIsBest StepIndependent PrintsRight EachChangeNew PatternsWhole StarsAsDefined MeshSound
