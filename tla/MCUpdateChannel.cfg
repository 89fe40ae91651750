SPECIFICATION Spec
CONSTANTS
  Hubs = {h1, h2}
  Dirs = {d1, d2}
  Platforms = {1, 2}
  Agents = {a1}
  MaxRelease = 2
  Assets <- MCAssets
  Signed = {2}
  MaxFaults = 1
INVARIANT FilesMatch
PROPERTIES OnlyUpward FleetConverges
