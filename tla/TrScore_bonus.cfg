SPECIFICATION MCSpec
CONSTANTS
  Maps <- MCMaps
  Confs <- MCBonusConfs
  Rating <- MCRating
  Influence <- MCInfluence
  Scale <- MCScale
  SkillMaps <- MCSkillMaps
  Cst <- MCCst
  Seen <- MCSeen
  PatternUnit = 6
  ReadMaps <- MCReadMaps
  Interest <- MCInterest
INVARIANT NoBonusLeft
